---------------------------- MODULE Spec2Model ----------------------------
(***************************************************************************)
(* A model of ros_project_creator: the two commands (create_ros_project,   *)
(* create_vscode_project), the two creator classes they drive              *)
(* (RosProjectCreator, VscodeProjectCreator), the variant catalog          *)
(* (RosVariant) and the helpers of Utilities, over a small filesystem.     *)
(*                                                                         *)
(* Strings that the code inspects character by character (strip, the       *)
(* image-name regular expression, sorted()) are sequences of one-character *)
(* strings; None is the value PyNone.  File modes keep their numeric       *)
(* value (0o755 = 493).                                                    *)
(***************************************************************************)
EXTENDS Naturals, Integers, Sequences, FiniteSets, TLC

VARIABLES
    env,      \* the environment of the runs: catalog, resources, binaries, user
    inp,      \* per run: the entry point and the arguments it is called with
    fs,       \* the output directory tree: path -> [kind, mode]
    pc,       \* per run: the position of the run in the program
    self,     \* per run: the attributes the constructors have set
    idx,      \* per run: the index of the next installation step
    res,      \* per run: the outcome (error kind, exit code, stderr, logged)
    hist,     \* per run: what the run has done so far (writes, commands)
    img_in,   \* image-name validation: the raw string
    img_out   \* image-name validation: the verdict ("unset", "valid", "invalid")

vars == <<env, inp, fs, pc, self, idx, res, hist, img_in, img_out>>

---------------------------------------------------------------------------
(* Characters and strings                                                  *)

LowerChars == {"a","b","c","d","e","f","g","h","i","j","k","l","m",
               "n","o","p","q","r","s","t","u","v","w","x","y","z"}
UpperChars == {"A","B","C","D","E","F","G","H","I","J","K","L","M",
               "N","O","P","Q","R","S","T","U","V","W","X","Y","Z"}
DigitChars == {"0","1","2","3","4","5","6","7","8","9"}
SpaceChars == {" ", "\t", "\n"}

PyNone == <<"<None>">>

AllIn(s, S) == \A i \in 1..Len(s) : s[i] \in S

\* str.strip(): drop the leading and the trailing whitespace
RECURSIVE LStrip(_)
LStrip(s) == IF s # <<>> /\ s[1] \in SpaceChars THEN LStrip(Tail(s)) ELSE s
RECURSIVE RStrip(_)
RStrip(s) ==
    IF s # <<>> /\ s[Len(s)] \in SpaceChars
    THEN RStrip(SubSeq(s, 1, Len(s) - 1)) ELSE s
Strip(s) == RStrip(LStrip(s))

\* the characters of s as one string (a file or directory name)
RECURSIVE Text(_)
Text(s) == IF s = <<>> THEN "" ELSE s[1] \o Text(Tail(s))

\* Utilities.clean_str
clean_str(string) == IF string # PyNone THEN Strip(string) ELSE PyNone

\* Python truthiness of a str or None ("not item")
Truthy(item) == item # PyNone /\ item # <<>>

---------------------------------------------------------------------------
(* Utilities.is_valid_docker_image_name: the regular expression            *)

HostChars  == LowerChars \cup DigitChars \cup {".", "-"}
AlnumChars == LowerChars \cup DigitChars
TagChars   == LowerChars \cup UpperChars \cup DigitChars \cup {"_", ".", "-"}

\* faulty variant: any run of dots, underscores and dashes separates
path_separator_anyrun(s) == Len(s) >= 1 /\ AllIn(s, {".", "_", "-"})

\* path_separator = (?:\.|_{1,2}|-+)
path_separator(s) ==
    \/ s = <<".">>
    \/ s = <<"_">>
    \/ s = <<"_", "_">>
    \/ Len(s) >= 1 /\ AllIn(s, {"-"})

\* path_component = [a-z0-9]+(?:{path_separator}[a-z0-9]+)*
RECURSIVE path_component(_)
path_component(s) ==
    \E k \in 1..Len(s) :
        /\ AllIn(SubSeq(s, 1, k), AlnumChars)
        /\ \/ k = Len(s)
           \/ \E j \in (k + 1)..(Len(s) - 1) :
                 /\ path_separator(SubSeq(s, k + 1, j))
                 /\ path_component(SubSeq(s, j + 1, Len(s)))

\* path_re = {path_component}(/{path_component})*
RECURSIVE path_re(_)
path_re(s) ==
    \/ path_component(s)
    \/ \E i \in 2..(Len(s) - 1) :
          /\ s[i] = "/"
          /\ path_component(SubSeq(s, 1, i - 1))
          /\ path_re(SubSeq(s, i + 1, Len(s)))

\* host_and_port_prefix = ([a-z0-9.-]+(:[0-9]+)?/)?   (the empty prefix included)
host_and_port_prefix(s) ==
    \/ s = <<>>
    \/ /\ Len(s) >= 2
       /\ s[Len(s)] = "/"
       /\ LET body == SubSeq(s, 1, Len(s) - 1) IN
          \/ AllIn(body, HostChars)
          \/ \E i \in 2..(Len(body) - 1) :
                /\ body[i] = ":"
                /\ AllIn(SubSeq(body, 1, i - 1), HostChars)
                /\ AllIn(SubSeq(body, i + 1, Len(body)), DigitChars)

\* tag_re = (:[a-zA-Z0-9_.-]+)?   (the empty tag included)
tag_re(s) ==
    \/ s = <<>>
    \/ Len(s) >= 2 /\ s[1] = ":" /\ AllIn(Tail(s), TagChars)

\* the text between ^ and $
full_re(s) ==
    \E i \in 0..Len(s) : \E j \in i..Len(s) :
        /\ host_and_port_prefix(SubSeq(s, 1, i))
        /\ path_re(SubSeq(s, i + 1, j))
        /\ tag_re(SubSeq(s, j + 1, Len(s)))

\* re.match(^...$): "$" also matches just before one trailing newline
is_valid_docker_image_name(name) ==
    \/ full_re(name)
    \/ name # <<>> /\ name[Len(name)] = "\n" /\ full_re(SubSeq(name, 1, Len(name) - 1))


---------------------------------------------------------------------------
(* The filesystem: a function from absolute paths (sequences of names) to  *)
(* nodes [kind, mode, data].  data says where a file's content comes from: *)
(* <<how, source, context>>.                                               *)

Mode755 == 493   \* 0o755
Mode644 == 420   \* 0o644
Mode775 == 509   \* 0o775
Mode664 == 436   \* 0o664
Mode777 == 511   \* 0o777, the mode Path.mkdir asks for by default
Mode666 == 438   \* 0o666, the mode open() and touch() ask for

RECURSIVE BitAndNot(_, _)
BitAndNot(a, b) ==
    IF a = 0 THEN 0
    ELSE (IF a % 2 = 1 /\ b % 2 = 0 THEN 1 ELSE 0) + 2 * BitAndNot(a \div 2, b \div 2)

\* a mode carries an execute bit (owner, group or other)
HasExec(m) == (m \div 64) % 2 = 1 \/ (m \div 8) % 2 = 1 \/ m % 2 = 1

Exists(f, p) == p \in DOMAIN f
IsDir(f, p)  == p \in DOMAIN f /\ f[p].kind = "dir"
IsFile(f, p) == p \in DOMAIN f /\ f[p].kind = "file"
Parent(p)    == SubSeq(p, 1, Len(p) - 1)
Prefixes(p)  == {SubSeq(p, 1, n) : n \in 0..Len(p)}
IsUnder(p, d) == Len(p) >= Len(d) /\ SubSeq(p, 1, Len(d)) = d
Children(f, d) == {p \in DOMAIN f : Len(p) = Len(d) + 1 /\ IsUnder(p, d)}

DirNode(m)        == [kind |-> "dir", mode |-> m, data |-> <<>>]
FileNode(m, data) == [kind |-> "file", mode |-> m, data |-> data]
Put(f, p, node)   == [q \in DOMAIN f \cup {p} |-> IF q = p THEN node ELSE f[q]]
Remove(f, p)      == [q \in DOMAIN f \ {p} |-> f[q]]
Chmod(f, p, m)    == [f EXCEPT ![p].mode = m]

Ok(f)     == [ok |-> TRUE, fs |-> f, err |-> "none"]
Fail(f, e) == [ok |-> FALSE, fs |-> f, err |-> e]

\* os.makedirs / Path.mkdir(parents=True): the missing ancestors and the directory
\* itself, each with the default mode; an ancestor that is a file stops it
MakeDirs(f, p, umask) ==
    IF \E q \in Prefixes(p) : IsFile(f, q)
    THEN Fail(f, "OSError")
    ELSE Ok([q \in DOMAIN f \cup Prefixes(p) |->
                IF q \in DOMAIN f THEN f[q] ELSE DirNode(BitAndNot(Mode777, umask))])

\* Path.mkdir(parents=True) without exist_ok: an existing path is an error
MkdirParentsStrict(f, p, umask) ==
    IF Exists(f, p) THEN Fail(f, "OSError") ELSE MakeDirs(f, p, umask)

\* open(p, "w") and write: the parent must be a directory, p must not be one;
\* a new file gets 0o666 less the umask, an existing one keeps its mode
OpenWrite(f, p, data, umask) ==
    IF ~IsDir(f, Parent(p)) \/ IsDir(f, p) \/ p = <<>>
    THEN Fail(f, "OSError")
    ELSE Ok(Put(f, p, FileNode(IF Exists(f, p) THEN f[p].mode
                                 ELSE BitAndNot(Mode666, umask), data)))

\* Path.touch()
Touch(f, p, umask) ==
    IF Exists(f, p) THEN Ok(f)
    ELSE IF ~IsDir(f, Parent(p)) THEN Fail(f, "OSError")
    ELSE Ok(Put(f, p, FileNode(BitAndNot(Mode666, umask), <<"empty", <<>>, <<>> >>)))

\* shutil.copy / shutil.copy2 of resource src (kind srckind, mode srcmode) to dst: into
\* dst when dst is a directory; content and permission bits are copied
ShutilCopy(f, src, srckind, srcmode, dst, umask) ==
    LET target == IF IsDir(f, dst) THEN Append(dst, src[Len(src)]) ELSE dst IN
    IF srckind # "file" \/ ~IsDir(f, Parent(target)) \/ IsDir(f, target)
    THEN Fail(f, "OSError")
    ELSE Ok(Put(f, target, FileNode(srcmode, <<"copy", src, <<>> >>)))
---------------------------------------------------------------------------
(* Python values that cross a call boundary carry their type               *)

StrV(s)  == [t |-> "str",  v |-> s]
BoolV(b) == [t |-> "bool", v |-> b]
PathV(p) == [t |-> "path", v |-> p]
NoneV    == [t |-> "none", v |-> <<>>]

\* bool(value): a Path is always true
TruthyV(x) ==
    CASE x.t = "none" -> FALSE
      [] x.t = "bool" -> x.v
      [] x.t = "str"  -> x.v # <<>>
      [] OTHER        -> TRUE

\* Binding positional arguments to the parameters of a constructor: too many, or
\* fewer than the parameters without default, is a TypeError
BindArgs(params, defaults, args) ==
    IF Len(args) > Len(params) \/ Len(args) < Len(params) - Len(defaults)
    THEN [ok |-> FALSE, val |-> <<>>]
    ELSE [ok |-> TRUE,
          val |-> [n \in {params[i] : i \in 1..Len(params)} |->
                     LET i == CHOOSE k \in 1..Len(params) : params[k] = n IN
                     IF i <= Len(args) THEN args[i]
                     ELSE defaults[i - (Len(params) - Len(defaults))]]]

---------------------------------------------------------------------------
(* Paths as the user writes them: a sequence of tokens, each a whitespace  *)
(* character, "/", "~", ".", ".." or a name.  A resolved path is the       *)
(* sequence of its names from the root.                                    *)

HomeDir == <<"home", "u">>     \* Path.home() of the invoking process
WorkDir == <<"home", "u">>     \* its working directory

\* Path.is_absolute()
is_absolute(toks) == toks # <<>> /\ toks[1] = "/"

RECURSIVE Normalize(_, _)
Normalize(acc, toks) ==
    IF toks = <<>> THEN acc
    ELSE IF toks[1] \in {"/", "."} THEN Normalize(acc, Tail(toks))
    ELSE IF toks[1] = ".."
         THEN Normalize(IF acc = <<>> THEN acc ELSE SubSeq(acc, 1, Len(acc) - 1), Tail(toks))
    ELSE Normalize(Append(acc, toks[1]), Tail(toks))

\* Path.expanduser().resolve()
expanduser_resolve(toks) ==
    IF toks # <<>> /\ toks[1] = "~" /\ (Len(toks) = 1 \/ toks[2] = "/")
    THEN Normalize(HomeDir, Tail(toks))
    ELSE IF is_absolute(toks) THEN Normalize(<<>>, toks)
    ELSE Normalize(WorkDir, toks)

\* the account table: pwd.getpwnam(user).pw_dir
Passwd == [u |-> <<"home", "u">>, admin |-> <<"home", "admin">>]

\* Path.relative_to(other) succeeds
relative_to(p, other) == IsUnder(p, other)
---------------------------------------------------------------------------
(* Strings of the runs                                                     *)

Str_robproj   == <<"r", "o", "b", "p", "r", "o", "j">>
Str_Rob       == <<"R", "o", "b">>
Str_dot_x     == <<".", "/", "x">>
Str_humble    == <<"h", "u", "m", "b", "l", "e">>
Str_humble_ws == <<" ", "h", "u", "m", "b", "l", "e", "\n">>
Str_noetic    == <<"n", "o", "e", "t", "i", "c">>
Str_foxy      == <<"f", "o", "x", "y">>
Str_next      == <<"n", "e", "x", "t">>
Str_blank     == <<" ">>
Str_base_img  == <<"m", "y", "o", "r", "g", "/", "b", "a", "s", "e", ":", "l", "a", "t", "e", "s", "t">>
Str_bad_img   == <<"M", "y", "O", "r", "g", "/", "b", "a", "s", "e">>
Str_img_id    == <<"r", "o", "b", "p", "r", "o", "j", ":", "h", "u", "m", "b", "l", "e">>
Str_latest    == <<":", "l", "a", "t", "e", "s", "t">>
Str_robo      == <<"r", "o", "b", "o">>
Str_root      == <<"r", "o", "o", "t">>
Str_amd64     == <<"l", "i", "n", "u", "x", "/", "a", "m", "d", "6", "4">>
Str_arm64     == <<"l", "i", "n", "u", "x", "/", "a", "r", "m", "6", "4">>
Str_bogus     == <<"b", "o", "g", "u", "s">>

---------------------------------------------------------------------------
(* The variant catalog: resources/ros/ros_variants.yaml and RosVariant     *)

\* one record of the catalog document
VariantRecord(distro, version, ubuntu, c, cpp) ==
    [ros_distro |-> distro, ros_version |-> version, ubuntu_version |-> ubuntu,
     c_version |-> c, cpp_version |-> cpp]

\* the catalog documents of the runs: the mapping the YAML file holds
CatalogStd ==
    (Str_noetic :> VariantRecord(Str_noetic, 1, "20.04", "11", "14")) @@
    (Str_humble :> VariantRecord(Str_humble, 2, "22.04", "17", "17"))
CatalogNext ==
    CatalogStd @@ (Str_next :> VariantRecord(Str_next, 3, "26.04", "23", "23"))
EmptyDict == <<>>

\* faulty variant: the kind of the loaded document is not looked at
load_yaml_unchecked(cat) == IF cat.file THEN cat.variants ELSE EmptyDict

\* Utilities.load_yaml: the document when it is a mapping, {} otherwise (a missing
\* or unparsable file included)
load_yaml(cat) == IF cat.file /\ cat.doc = "dict" THEN cat.variants ELSE EmptyDict

\* the text of "Allowed ROS distros: ...": every key with its ros_version
supported_ros_distros(ros_variants) ==
    {<<d, ros_variants[d].ros_version>> : d \in DOMAIN ros_variants}

NoMsg == [listed |-> {}, path |-> <<>>]
Raise(exc, kind, text, msg) ==
    [ok |-> FALSE, exc |-> exc, kind |-> kind, text |-> text, msg |-> msg, val |-> <<>>]
Return(val) ==
    [ok |-> TRUE, exc |-> "none", kind |-> "none", text |-> "", msg |-> NoMsg, val |-> val]

\* faulty variant: the lookup compares the raw argument, not the stripped one
RosVariantLookupKey_raw(ros_distro) == ros_distro

\* the key RosVariant.__init__ looks up: Utilities.clean_str(ros_distro)
RosVariantLookupKey(ros_distro) == clean_str(ros_distro)

\* RosVariant.__init__(ros_distro, ros_variants_yaml_file)
\* faulty variant: an identifier the catalog does not hold gets some record of it
RosVariant_fallback(ros_distro, cat) ==
    LET key == RosVariantLookupKey(ros_distro)
        ros_variants == load_yaml(cat)
    IN  IF ~Truthy(key) \/ DOMAIN ros_variants = {}
        THEN Raise("Exception", "InvalidArgument", "ROS distro must be a non-empty string", NoMsg)
        ELSE IF key \in DOMAIN ros_variants THEN Return(ros_variants[key])
        ELSE Return(ros_variants[CHOOSE d \in DOMAIN ros_variants : TRUE])

\* RosVariant.__init__: the record of the identifier, or the error raised
RosVariant(ros_distro, cat) ==
    LET key == RosVariantLookupKey(ros_distro)
        ros_variants == load_yaml(cat)
    IN  IF ~Truthy(key)
        THEN Raise("Exception", "InvalidArgument", "ROS distro must be a non-empty string", NoMsg)
        ELSE IF ~cat.file
        THEN Raise("Exception", "MissingResource", "File is required",
                   [listed |-> {}, path |-> <<"ros", "ros_variants.yaml">>])
        ELSE IF DOMAIN ros_variants = {}
        THEN Raise("Exception", "MissingResource", "No ROS variants found in the file",
                   [listed |-> {}, path |-> <<"ros", "ros_variants.yaml">>])
        ELSE IF key \in DOMAIN ros_variants
        THEN Return(ros_variants[key])
        ELSE Raise("Exception", "UnsupportedVariant", "Found ROS distro. Allowed ROS distros",
                   [listed |-> supported_ros_distros(ros_variants), path |-> <<>>])
---------------------------------------------------------------------------
(* The resource library: resources/<subsystem>/<name>, a name -> kind map  *)

\* f"{version}": the decimal text of a small number
DigitText == <<"1", "2", "3", "4", "5", "6", "7", "8", "9">>
fstr(version) == DigitText[version]

DockerFiles == {"build_img.j2", "Dockerfile", "dot_dockerignore", "docker-compose.j2",
                "entrypoint.sh", "environment_root.sh"}
ScriptFiles == {"deduplicate_path.sh", "dot_bash_aliases", "install_core.sh",
                "install_kisak_mesa_packages.sh", "install_default_mesa_packages.sh"}
RosFiles == {"install_ros.j2", "rosdep_init_update.sh", "catkin_config_ros1.yaml",
             "rosdep_ignored_keys_ros2.yaml", "colcon_mixin_metadata.sh"}
           \cup UNION {{"packages_ros" \o v \o ".txt", "environment_ros" \o v \o ".j2",
                        "ros" \o v \o "build.sh",
                        "bringup_CMakeLists_ros" \o v \o ".j2",
                        "bringup_package_ros" \o v \o ".xml",
                        "simulation_CMakeLists_ros" \o v \o ".j2",
                        "simulation_package_ros" \o v \o ".xml"} : v \in {"1", "2"}}
GitFiles == {"dot_gitignore", "dot_pre-commit-config.yaml"}
ClangFiles == {"dot_clang-format", "dot_clang-tidy"}
DepsFiles == {"deps.repos", "install_deps.sh"}
VscodeFiles == {"dot_devcontainer.j2", "c_cpp_properties.j2", "settings.json",
                "tasks.j2", "ws.j2"}

ResourceDirs == {<<"docker">>, <<"scripts">>, <<"ros">>, <<"git">>, <<"git", "gitlab">>,
                 <<"clang">>, <<"deps">>, <<"vscode">>}
ResourceFiles ==
    {<<"docker", n>> : n \in DockerFiles} \cup {<<"scripts", n>> : n \in ScriptFiles} \cup
    {<<"ros", n>> : n \in RosFiles} \cup {<<"git", n>> : n \in GitFiles} \cup
    {<<"clang", n>> : n \in ClangFiles} \cup {<<"deps", n>> : n \in DepsFiles} \cup
    {<<"vscode", n>> : n \in VscodeFiles}

\* the complete library
ResourcesAll ==
    [n \in ResourceDirs \cup ResourceFiles |-> IF n \in ResourceDirs THEN "dir" ELSE "file"]

\* the library with one entry absent or of another kind
ResourcesWith(name, kind) == [ResourcesAll EXCEPT ![name] = kind]

\* what a resource path is on disk: "file", "dir" or "absent"
ResKind(e, name) ==
    IF ~e.resources_dir THEN "absent"
    ELSE IF name \in DOMAIN e.resources THEN e.resources[name] ELSE "absent"

\* the files a directory resource holds (git/gitlab: the merge request templates)
DirListing == {"merge_request_templates.md"}
---------------------------------------------------------------------------
(* Utilities: the filesystem helpers.  e is the environment (the resource  *)
(* library, the umask, the mode of the resource files).                    *)

\* faulty variant: the copy keeps the permission bits of the source
copy_file_nochmod(f, e, src, dst, mode) ==
    ShutilCopy(f, src, ResKind(e, src), e.src_mode, dst, e.umask)

\* Utilities.copy_file: shutil.copy(src, dst); dst.chmod(mode)
copy_file(f, e, src, dst, mode) ==
    LET r == ShutilCopy(f, src, ResKind(e, src), e.src_mode, dst, e.umask) IN
    IF r.ok THEN Ok(Chmod(r.fs, dst, mode)) ELSE r

\* Utilities.copy_dir: shutil.copytree(src, dst, dirs_exist_ok=True); dst.chmod(mode)
copy_dir(f, e, src, dst, mode) ==
    IF ResKind(e, src) # "dir" THEN Fail(f, "OSError")
    ELSE LET d == MakeDirs(f, dst, e.umask) IN
         IF ~d.ok THEN d
         ELSE IF \E n \in DirListing : IsDir(d.fs, Append(dst, n)) THEN Fail(d.fs, "OSError")
         ELSE Ok([q \in DOMAIN d.fs \cup {Append(dst, n) : n \in DirListing} |->
                    IF q = dst THEN DirNode(mode)
                    ELSE IF q \in DOMAIN d.fs /\ ~(Parent(q) = dst /\ q[Len(q)] \in DirListing)
                         THEN d.fs[q]
                    ELSE FileNode(e.src_mode, <<"copy", Append(src, q[Len(q)]), <<>> >>)])

\* Utilities.mkdir: dir.mkdir(parents=True, exist_ok=True); dir.chmod(mode)
mkdir(f, e, dir, mode) ==
    LET d == MakeDirs(f, dir, e.umask) IN
    IF d.ok THEN Ok(Chmod(d.fs, dir, mode)) ELSE d

\* Utilities.write_file: an existing path is an error, else open("w") and write
write_file(f, e, data, file) ==
    IF Exists(f, file) THEN Fail(f, "Exception") ELSE OpenWrite(f, file, data, e.umask)

\* Utilities.read_file
read_file(f, e, src) == IF ResKind(e, src) = "file" THEN Ok(f) ELSE Fail(f, "Exception")

\* Utilities.install_template: render_template, write_file, output_file.chmod(mode)
install_template(f, e, template, context, output_file, mode) ==
    IF ResKind(e, template) # "file" THEN Fail(f, "TemplateNotFound")
    ELSE LET w == write_file(f, e, <<"render", template, context>>, output_file) IN
         IF w.ok THEN Ok(Chmod(w.fs, output_file, mode)) ELSE w
---------------------------------------------------------------------------
(* The environment of a run and the arguments it is given                  *)

Umask022 == 18   \* 0o022, the usual umask

\* the output directory the arguments name by default: ~/proj
ProjTokens == <<"~", "/", "proj">>
ProjDir    == <<"home", "u", "proj">>

FsBase ==
    (<<>> :> DirNode(Mode755)) @@ (<<"home">> :> DirNode(Mode755)) @@
    (<<"home", "u">> :> DirNode(Mode755)) @@ (<<"home", "admin">> :> DirNode(Mode755)) @@
    (<<"tmp">> :> DirNode(Mode777))
UserData == <<"text", <<"user">>, <<>> >>
\* the initial filesystems: the output directory absent, present and empty, present
\* with a file of the user, present with an earlier editor configuration
InitialFs(name) ==
    CASE name = "absent" -> FsBase
      [] name = "empty"  -> FsBase @@ (ProjDir :> DirNode(Mode755))
      [] name = "used"   -> FsBase @@ (ProjDir :> DirNode(Mode755)) @@
                            (Append(ProjDir, "keep.txt") :> FileNode(Mode644, UserData))
      [] name = "edited" -> FsBase @@ (ProjDir :> DirNode(Mode755)) @@
                            (Append(ProjDir, "keep.txt") :> FileNode(Mode644, UserData)) @@
                            (Append(ProjDir, ".vscode") :> DirNode(Mode755)) @@
                            (ProjDir \o <<".vscode", "settings.json">> :>
                                 FileNode(Mode644, UserData))

\* a mapping whose key for the amd64 platform is not the id of its object
PlatformsAlias ==
    << [key |-> Str_amd64, id |-> Str_bogus, architectures |-> {"x86_64", "amd64"}],
       [key |-> Str_arm64, id |-> Str_arm64, architectures |-> {"aarch64", "arm64"}] >>

PlatformsStd ==
    << [key |-> Str_amd64, id |-> Str_amd64, architectures |-> {"x86_64", "amd64"}],
       [key |-> Str_arm64, id |-> Str_arm64, architectures |-> {"aarch64", "arm64"}] >>

\* a valid environment
EnvBase ==
    [euid           |-> 1000,
     sudo_user      |-> "",
     user           |-> "u",
     arch           |-> "x86_64",
     umask          |-> Umask022,
     catalog        |-> [file |-> TRUE, doc |-> "dict", variants |-> CatalogStd],
     resources_dir  |-> TRUE,
     resources      |-> ResourcesAll,
     src_mode       |-> Mode644,
     git_bin        |-> TRUE,
     pre_commit_bin |-> TRUE,
     git_exit       |-> 0,
     pre_commit_exit |-> 0,
     gitconfig      |-> "global",
     fs0            |-> "absent"]

\* valid arguments (of the constructors and of the command lines)
InpBase ==
    [entry         |-> "ros_api",
     project_id    |-> Str_robproj,
     project_dir   |-> ProjTokens,
     ros_distro    |-> Str_humble,
     base_img      |-> Str_base_img,
     supported_docker_platforms |-> PlatformsStd,
     docker_platform |-> Str_amd64,
     img_id        |-> Str_img_id,
     img_user      |-> Str_robo,
     use_vscode_project |-> FALSE,
     use_pre_commit |-> TRUE,
     use_console_log |-> TRUE,
     log_file      |-> "",
     log_level     |-> "DEBUG",
     entrypoint    |-> "unset",
     use_base_img_entrypoint |-> FALSE,
     environment   |-> "unset",
     no_environment |-> FALSE,
     img_user_home |-> PathV(<<"/", "home", "/", "robo">>),
     workspace_dir |-> PathV(ProjTokens),
     img_workspace_dir |-> PathV(<<"/", "home", "/", "robo", "/", "workspace">>),
     use_host_nvidia_driver |-> FALSE]
---------------------------------------------------------------------------
(* RosProjectCreator.__init__, the validation of the arguments (lines 77   *)
(* to 198).  a: the bound arguments, e: the environment, f: the filesystem *)

\* faulty variant: SUDO_USER is not looked at
real_user_USER(e) == e.user

\* os.getenv("SUDO_USER") or os.getenv("USER")
real_user(e) == IF e.sudo_user # "" THEN e.sudo_user ELSE e.user

\* faulty variant: the first supported platform is taken, whatever the machine
DefaultPlatform_first(platforms, arch, chosen) ==
    IF platforms = <<>> THEN chosen ELSE platforms[1].id

\* the platform chosen when none is given: the id of the last supported platform
\* that lists the machine's architecture, "" when there is none
RECURSIVE DefaultPlatform(_, _, _)
DefaultPlatform(platforms, arch, chosen) ==
    IF platforms = <<>> THEN chosen
    ELSE DefaultPlatform(Tail(platforms), arch,
                         IF arch \in platforms[1].architectures
                         THEN platforms[1].id ELSE chosen)

PlatformKeys(platforms) == {platforms[i].key : i \in 1..Len(platforms)}

\* faulty variant: the home of every user is looked for under /home
ImgUserHome_under_home(img_user) == <<"/", "home", "/", Text(img_user)>>

\* img_user_home: /root for root, /home/<user> otherwise
ImgUserHome(img_user) ==
    IF img_user = Str_root THEN <<"/", "root">> ELSE <<"/", "home", "/", Text(img_user)>>

\* faulty variant: no check that the project directory is new
ProjectDirTaken_never(f, project_dir) == FALSE

\* self._project_dir.exists()
ProjectDirTaken(f, project_dir) == Exists(f, project_dir)

\* faulty variant: the default image id is the project id alone
DefaultedImgId_bare(cleaned_id, project_id) ==
    IF Truthy(cleaned_id) THEN cleaned_id ELSE project_id

\* line 177: clean_str(img_id) or f"{self._project_id}:latest"
DefaultedImgId(cleaned_id, project_id) ==
    IF Truthy(cleaned_id) THEN cleaned_id ELSE project_id \o Str_latest

\* the attributes set by lines 77-198, or the first error raised
RosCheckArguments(a, e, f) ==
    LET project_id  == clean_str(a.project_id)
        project_dir == expanduser_resolve(Strip(a.project_dir))
        user        == real_user(e)
        variant     == RosVariant(a.ros_distro, e.catalog)
        base_img    == clean_str(a.base_img)
        given       == clean_str(a.docker_platform)
        platform    == IF Truthy(given) THEN given
                       ELSE DefaultPlatform(a.supported_docker_platforms, e.arch, <<>>)
        cleaned_id  == clean_str(a.img_id)
        img_id      == DefaultedImgId(cleaned_id, project_id)
        img_user    == clean_str(a.img_user)
        Ros(kind, text) == Raise("RosProjectCreatorException", kind, text, NoMsg)
        Exc(kind, text) == Raise("Exception", kind, text, NoMsg)
    IN
    IF ~Truthy(project_id) THEN Exc("InvalidArgument", "Project's id must be a non-empty string")
    ELSE IF a.project_dir = PyNone THEN Ros("InvalidArgument", "Project directory must be provided")
    ELSE IF a.project_dir # <<>> /\ Strip(a.project_dir) = <<>>
         THEN Ros("InvalidArgument", "Project directory cannot consist only of whitespace characters")
    ELSE IF user = "" THEN Ros("NoUser", "Unable to determine the active user")
    ELSE IF user \notin DOMAIN Passwd THEN Raise("KeyError", "NoUser", "getpwnam(): name not found", NoMsg)
    ELSE IF ~relative_to(project_dir, Passwd[user])
         THEN Ros("PathConflict", "Project directory must be inside the home of the active user")
    ELSE IF ProjectDirTaken(f, project_dir) THEN Ros("PathConflict", "Project dir already exists")
    ELSE IF ~e.resources_dir THEN Exc("MissingResource", "Path is required")
    ELSE IF ~variant.ok THEN variant
    ELSE IF ~Truthy(base_img) THEN Exc("InvalidArgument", "Base image must be a non-empty string")
    ELSE IF ~is_valid_docker_image_name(base_img)
         THEN Ros("InvalidArgument", "Base image is not a valid Docker image name")
    ELSE IF a.supported_docker_platforms = <<>>
         THEN Exc("InvalidArgument", "Supported platforms must be a non-empty list")
    ELSE IF ~Truthy(platform) THEN Ros("InvalidArgument", "Architecture is not supported")
    ELSE IF platform \notin PlatformKeys(a.supported_docker_platforms)
         THEN Ros("InvalidArgument", "Platform is not supported")
    ELSE IF ~is_valid_docker_image_name(img_id)
         THEN Ros("InvalidArgument", "Image ID is not a valid Docker image name")
    ELSE IF ~Truthy(img_user) THEN Exc("InvalidArgument", "Image user must be a non-empty string")
    ELSE Return([project_id |-> project_id, project_dir |-> project_dir,
                 ros_variant |-> variant.val, base_img |-> base_img,
                 docker_platform |-> platform, img_id |-> img_id, img_user |-> img_user,
                 img_user_home |-> ImgUserHome(img_user),
                 img_workspace_dir |-> ImgUserHome(img_user) \o <<"/", "workspace">>,
                 img_datasets_dir |-> ImgUserHome(img_user) \o <<"/", "datasets">>,
                 img_gitconfig_dir |-> ImgUserHome(img_user) \o <<"/", ".gitconfig">>,
                 img_ssh_dir |-> ImgUserHome(img_user) \o <<"/", ".ssh">>,
                 img_entrypoint |-> ImgUserHome(img_user) \o <<"/", "entrypoint.sh">>])
---------------------------------------------------------------------------
(* VscodeProjectCreator: the manifest and its installer                    *)

\* the characters of the manifest keys in ascending code-point order
CharOrder ==
    <<" ", "-", ".", "/", "0", "1", "2", "3", "4", "5", "6", "7", "8", "9",
      "A", "B", "C", "D", "E", "F", "G", "H", "I", "J", "K", "L", "M",
      "N", "O", "P", "Q", "R", "S", "T", "U", "V", "W", "X", "Y", "Z", "_",
      "a", "b", "c", "d", "e", "f", "g", "h", "i", "j", "k", "l", "m",
      "n", "o", "p", "q", "r", "s", "t", "u", "v", "w", "x", "y", "z">>
ord(c) == CHOOSE i \in 1..Len(CharOrder) : CharOrder[i] = c

\* a < b for two str values
RECURSIVE StrLess(_, _)
StrLess(a, b) ==
    IF b = <<>> THEN FALSE
    ELSE IF a = <<>> THEN TRUE
    ELSE IF a[1] = b[1] THEN StrLess(Tail(a), Tail(b))
    ELSE ord(a[1]) < ord(b[1])

\* faulty variant: the keys in an order that is not the sorted one (descending)
RECURSIVE sorted_desc(_)
sorted_desc(keys) ==
    IF keys = {} THEN <<>>
    ELSE LET m == CHOOSE k \in keys : \A o \in keys \ {k} : StrLess(o, k) IN
         <<m>> \o sorted_desc(keys \ {m})

\* sorted(keys)
RECURSIVE sorted(_)
sorted(keys) ==
    IF keys = {} THEN <<>>
    ELSE LET m == CHOOSE k \in keys : \A o \in keys \ {k} : StrLess(k, o) IN
         <<m>> \o sorted(keys \ {m})

\* the names of a relative path given as text: "a/b" -> <<"a", "b">>
RECURSIVE SplitNames(_, _)
SplitNames(s, cur) ==
    IF s = <<>> THEN (IF cur = <<>> THEN <<>> ELSE <<Text(cur)>>)
    ELSE IF s[1] = "/"
         THEN (IF cur = <<>> THEN <<>> ELSE <<Text(cur)>>) \o SplitNames(Tail(s), <<>>)
    ELSE SplitNames(Tail(s), Append(cur, s[1]))

\* Path.joinpath(key)
joinpath(dir, key) == dir \o SplitNames(key, <<>>)

NoSrc == <<>>
\* the entries of a manifest: [source] a directory, [source, executable] a file,
\* [source, context, executable] a rendered file
DirItem(src)              == [n |-> 1, src |-> src, ctx |-> <<>>, ctxkind |-> "none", exec |-> FALSE]
FileItem(src, exec)       == [n |-> 2, src |-> src, ctx |-> <<>>, ctxkind |-> "none", exec |-> exec]
RenderItem(src, ctx, exec) == [n |-> 3, src |-> src, ctx |-> ctx, ctxkind |-> "dict", exec |-> exec]

Key_devcontainer   == <<".", "d", "e", "v", "c", "o", "n", "t", "a", "i", "n", "e", "r", "/", "d", "e", "v", "c", "o", "n", "t", "a", "i", "n", "e", "r", ".", "j", "s", "o", "n">>
Key_docker_compose == <<".", "d", "e", "v", "c", "o", "n", "t", "a", "i", "n", "e", "r", "/", "d", "o", "c", "k", "e", "r", "-", "c", "o", "m", "p", "o", "s", "e", ".", "y", "a", "m", "l">>
Key_c_cpp          == <<".", "v", "s", "c", "o", "d", "e", "/", "c", "_", "c", "p", "p", "_", "p", "r", "o", "p", "e", "r", "t", "i", "e", "s", ".", "j", "s", "o", "n">>
Key_settings       == <<".", "v", "s", "c", "o", "d", "e", "/", "s", "e", "t", "t", "i", "n", "g", "s", ".", "j", "s", "o", "n">>
Key_tasks          == <<".", "v", "s", "c", "o", "d", "e", "/", "t", "a", "s", "k", "s", ".", "j", "s", "o", "n">>
Key_workspace      == <<"w", "s", ".", "c", "o", "d", "e", "-", "w", "o", "r", "k", "s", "p", "a", "c", "e">>

\* f"{os.getuid()}" for the two users of the model
UidText(uid) == IF uid = 0 THEN "0" ELSE "1000"

\* VscodeProjectCreator._create_items_to_install
create_items_to_install(s, e) ==
    (Key_devcontainer :> RenderItem(<<"vscode", "dot_devcontainer.j2">>,
        [service |-> "devcont", img_user |-> s.img_user,
         img_workspace_dir |-> s.img_workspace_dir], FALSE)) @@
    (Key_docker_compose :> RenderItem(<<"docker", "docker-compose.j2">>,
        [service |-> "devcont", img_id |-> s.img_id,
         use_host_nvidia_driver |-> s.use_host_nvidia_driver,
         workspace_dir |-> s.workspace_dir, img_workspace_dir |-> s.img_workspace_dir,
         img_datasets_dir |-> s.img_user_home \o <<"/", "datasets">>,
         img_ssh_dir |-> s.img_user_home \o <<"/", ".ssh">>,
         use_git |-> s.use_git, gitconfig_file |-> s.gitconfig_file,
         img_gitconfig_file |-> s.img_user_home \o <<"/", ".gitconfig">>,
         ext_uid |-> UidText(e.euid), ext_upgid |-> UidText(e.euid)], TRUE)) @@
    (Key_c_cpp :> RenderItem(<<"vscode", "c_cpp_properties.j2">>,
        [c_version |-> "c" \o s.ros_variant.c_version,
         cpp_version |-> "c++" \o s.ros_variant.cpp_version,
         ros_distro |-> s.ros_variant.ros_distro], FALSE)) @@
    (Key_settings :> FileItem(<<"vscode", "settings.json">>, TRUE)) @@
    (Key_tasks :> RenderItem(<<"vscode", "tasks.j2">>,
        [build_command_for_release |-> s.build_release_cmd,
         build_command_for_debug |-> s.build_debug_cmd,
         build_command_for_relwithdebinfo |-> s.build_relwithdebinfo_cmd,
         clean_command |-> s.clean_cmd], TRUE)) @@
    (Key_workspace :> RenderItem(<<"vscode", "ws.j2">>,
        [ros_distro |-> s.ros_variant.ros_distro], FALSE))

\* the outcome of installing one entry
Step(ok, f, exc, kind, logged, reached, parent_ok) ==
    [ok |-> ok, fs |-> f, exc |-> exc, kind |-> kind, logged |-> logged,
     reached |-> reached, parent_ok |-> parent_ok]
VscFail(f, kind, logged) ==
    Step(FALSE, f, "VscodeProjectCreatorException", kind, logged, FALSE, TRUE)
OsFail(f, logged, reached, parent_ok) ==
    Step(FALSE, f, "OSError", "OSError", logged, reached, parent_ok)

\* faulty variant: the parent directory is created without looking whether it exists
EnsureParent_unguarded(f, e, dst) == MkdirParentsStrict(f, Parent(dst), e.umask)

\* "if not dst_path.parent.exists(): dst_path.parent.mkdir(parents=True)"
EnsureParent(f, e, dst) ==
    IF Exists(f, Parent(dst)) THEN Ok(f) ELSE MkdirParentsStrict(f, Parent(dst), e.umask)

\* faulty variant: the parent directory of a rendered file is not created
EnsureParentOfRendered_skip(f, e, dst) == Ok(f)

\* the parent directory of a rendered file is created when it is missing
EnsureParentOfRendered(f, e, dst) == EnsureParent(f, e, dst)

\* chmod(0o775) for an executable entry, chmod(0o664) otherwise
ItemMode(exec) == IF exec THEN Mode775 ELSE Mode664

\* faulty variant: every installed file is made executable
ItemModeOf_always775(item) == Mode775

\* the mode an entry's file is given: by item[1] for a copied or created file, by
\* item[2] for a rendered one
ItemModeOf(item) == ItemMode(item.exec)

\* faulty variant: only a context that is None is refused
ContextVerdict_none_only(item) == IF item.ctxkind = "none" THEN "MissingContext" ELSE "ok"

\* lines 288-296: "if context is None" and "if not isinstance(context, dict)"
ContextVerdict(item) ==
    IF item.ctxkind = "none" THEN "MissingContext"
    ELSE IF item.ctxkind # "dict" THEN "InvalidContext"
    ELSE "ok"

\* the body of the loop of VscodeProjectCreator._install_items for one key
InstallItem(f, e, workspace_dir, key, item) ==
    LET dst == joinpath(workspace_dir, key)
        src == item.src
        has_src == src # NoSrc
        \* "Remove the dst_path if it exists"
        removed ==
            IF IsFile(f, dst) THEN Ok(Remove(f, dst))
            ELSE IF IsDir(f, dst)
                 THEN (IF Children(f, dst) = {} /\ dst # <<>> THEN Ok(Remove(f, dst))
                       ELSE Fail(f, "OSError"))
            ELSE Ok(f)
        g == removed.fs
    IN
    IF has_src /\ ResKind(e, src) = "absent" THEN VscFail(f, "MissingResource", FALSE)
    ELSE IF ~removed.ok THEN OsFail(f, FALSE, FALSE, TRUE)
    ELSE IF item.n = 1 THEN
        IF has_src THEN
            IF ResKind(e, src) # "dir" THEN VscFail(g, "MissingResource", TRUE)
            ELSE LET p == EnsureParent(g, e, dst) IN
                 IF ~p.ok THEN OsFail(g, TRUE, FALSE, TRUE)
                 ELSE LET c == IF Exists(p.fs, dst) THEN Fail(p.fs, "OSError")
                               ELSE copy_dir(p.fs, e, src, dst, Mode775) IN
                      IF c.ok THEN Step(TRUE, c.fs, "none", "none", TRUE, TRUE, IsDir(p.fs, Parent(dst)))
                      ELSE OsFail(p.fs, TRUE, TRUE, IsDir(p.fs, Parent(dst)))
        ELSE LET m == MkdirParentsStrict(g, dst, e.umask) IN
             IF m.ok THEN Step(TRUE, m.fs, "none", "none", TRUE, TRUE, TRUE)
             ELSE OsFail(g, TRUE, TRUE, TRUE)
    ELSE IF item.n = 2 THEN
        IF has_src THEN
            IF ResKind(e, src) # "file" THEN VscFail(g, "MissingResource", TRUE)
            ELSE LET p == EnsureParent(g, e, dst) IN
                 IF ~p.ok THEN OsFail(g, TRUE, FALSE, TRUE)
                 ELSE LET c == ShutilCopy(p.fs, src, "file", e.src_mode, dst, e.umask) IN
                      IF c.ok THEN Step(TRUE, Chmod(c.fs, dst, ItemModeOf(item)), "none", "none",
                                        TRUE, TRUE, IsDir(p.fs, Parent(dst)))
                      ELSE OsFail(p.fs, TRUE, TRUE, IsDir(p.fs, Parent(dst)))
        ELSE LET t == Touch(g, dst, e.umask) IN
             IF t.ok THEN Step(TRUE, Chmod(t.fs, dst, ItemModeOf(item)), "none", "none",
                               TRUE, TRUE, IsDir(g, Parent(dst)))
             ELSE OsFail(g, TRUE, TRUE, IsDir(g, Parent(dst)))
    ELSE \* item.n = 3
        IF ~has_src THEN VscFail(g, "InvalidArgument", TRUE)
        ELSE IF ResKind(e, src) # "file" THEN VscFail(g, "MissingResource", TRUE)
        ELSE IF ContextVerdict(item) # "ok" THEN VscFail(g, ContextVerdict(item), TRUE)
        ELSE LET p == EnsureParentOfRendered(g, e, dst) IN
             IF ~p.ok THEN OsFail(g, TRUE, FALSE, TRUE)
             ELSE LET w == OpenWrite(p.fs, dst, <<"render", src, item.ctx>>, e.umask) IN
                  IF w.ok THEN Step(TRUE, Chmod(w.fs, dst, ItemModeOf(item)), "none", "none",
                                    TRUE, TRUE, IsDir(p.fs, Parent(dst)))
                  ELSE OsFail(p.fs, TRUE, TRUE, IsDir(p.fs, Parent(dst)))

\* the parameters of VscodeProjectCreator.__init__ and the defaults of the last four
VscodeParams ==
    <<"ros_distro", "img_id", "img_user", "img_user_home", "workspace_dir",
      "img_workspace_dir", "use_host_nvidia_driver", "use_console_log", "log_file",
      "log_level">>
VscodeDefaults == <<BoolV(FALSE), BoolV(TRUE), StrV(""), StrV("DEBUG")>>

\* calling a method of str (strip) or of Path (is_absolute, expanduser) on a value
\* of another type is an AttributeError
AttrError == Raise("AttributeError", "CallError", "object has no attribute", NoMsg)

\* "self._ros_variant.get_version() == '1'": the catalog holds numbers, and a number
\* never equals a str
version_is_str_1(ros_version) == FALSE

\* VscodeProjectCreator.__init__ up to the call of _install_items: the attributes, or
\* the first error raised.  b: the bound arguments
VscodeCheckArguments(b, e) ==
    LET variant == RosVariant(IF b.ros_distro.t = "none" THEN PyNone ELSE b.ros_distro.v,
                              e.catalog)
        Exc(kind, text) == Raise("Exception", kind, text, NoMsg)
        ros1 == version_is_str_1(variant.val.ros_version)
    IN
    IF ~e.resources_dir THEN Exc("MissingResource", "Path is required")
    ELSE IF b.ros_distro.t \notin {"str", "none"} THEN AttrError
    ELSE IF ~variant.ok THEN variant
    ELSE IF b.img_id.t \notin {"str", "none"} THEN AttrError
    ELSE IF ~TruthyV(b.img_id) THEN Exc("InvalidArgument", "Image id must be a non-empty string")
    ELSE IF b.img_user.t \notin {"str", "none"} THEN AttrError
    ELSE IF ~TruthyV(b.img_user) THEN Exc("InvalidArgument", "Image user must be a non-empty string")
    ELSE IF ~TruthyV(b.img_user_home) THEN Exc("InvalidArgument", "Image user home path must be provided")
    ELSE IF b.img_user_home.t # "path" THEN AttrError
    ELSE IF ~is_absolute(b.img_user_home.v)
         THEN Exc("InvalidArgument", "Image user home path must be an absolute path")
    ELSE IF ~TruthyV(b.workspace_dir) THEN Exc("InvalidArgument", "Image workspace path must be provided")
    ELSE IF b.workspace_dir.t # "path" THEN AttrError
    ELSE IF ~TruthyV(b.img_workspace_dir)
         THEN Exc("InvalidArgument", "Image workspace path must be provided")
    ELSE IF b.img_workspace_dir.t # "path" THEN AttrError
    ELSE IF ~is_absolute(b.img_workspace_dir.v)
         THEN Exc("InvalidArgument", "Image workspace path must be an absolute path")
    ELSE Return([ros_variant |-> variant.val,
                 img_id |-> clean_str(b.img_id.v), img_user |-> clean_str(b.img_user.v),
                 img_user_home |-> b.img_user_home.v,
                 workspace_dir |-> expanduser_resolve(b.workspace_dir.v),
                 img_workspace_dir |-> b.img_workspace_dir.v,
                 use_host_nvidia_driver |-> b.use_host_nvidia_driver.v,
                 use_git |-> e.gitconfig # "none",
                 gitconfig_file |-> e.gitconfig,
                 build_release_cmd |-> "rosbuild.sh",
                 build_debug_cmd |-> IF ros1 THEN "rosbuild.sh --cmake-args -DCMAKE_BUILD_TYPE=Debug"
                                     ELSE "rosbuild.sh --mixin debug",
                 build_relwithdebinfo_cmd |->
                     IF ros1 THEN "rosbuild.sh --cmake-args -DCMAKE_BUILD_TYPE=RelWithDebInfo"
                     ELSE "rosbuild.sh --mixin rel-with-deb-info",
                 clean_cmd |-> IF ros1 THEN "catkin clean --yes --verbose --force"
                               ELSE "colcon clean workspace -y"])

\* the positional arguments RosProjectCreator.__init__ gives the VscodeProjectCreator
\* (lines 202-211)
RosVscodeArgs(s, a) ==
    <<StrV(s.ros_variant.ros_distro), StrV(s.img_id), StrV(s.img_user),
      PathV(<<"/">> \o s.project_dir), PathV(s.img_workspace_dir),
      BoolV(a.use_console_log), StrV(a.log_file), StrV(a.log_level)>>
---------------------------------------------------------------------------
(* RosProjectCreator._check_templates_existance and the binaries           *)

Dir(path)  == [path |-> path, kind |-> "dir"]
File(path) == [path |-> path, kind |-> "file"]

\* the mesa script chosen by the ubuntu version of the variant
install_mesa_packages_template(s) ==
    IF s.ros_variant.ubuntu_version = "20.04"
    THEN <<"scripts", "install_kisak_mesa_packages.sh">>
    ELSE <<"scripts", "install_default_mesa_packages.sh">>

\* the assertions of lines 238-352, in the order of the code
ChecksBeforeVersion(s) ==
    LET v == fstr(s.ros_variant.ros_version) IN
    << Dir(<<"docker">>), File(<<"docker", "build_img.j2">>), File(<<"docker", "Dockerfile">>),
       File(<<"docker", "dot_dockerignore">>), File(<<"docker", "docker-compose.j2">>),
       File(<<"docker", "entrypoint.sh">>) >> \o
    (IF s.img_user # Str_root THEN << File(<<"docker", "environment_root.sh">>) >> ELSE <<>>) \o
    << File(<<"scripts", "deduplicate_path.sh">>), File(<<"scripts", "dot_bash_aliases">>),
       File(<<"scripts", "install_core.sh">>), File(install_mesa_packages_template(s)),
       Dir(<<"ros">>), File(<<"ros", "install_ros.j2">>),
       File(<<"ros", "packages_ros" \o v \o ".txt">>),
       File(<<"ros", "environment_ros" \o v \o ".j2">>),
       File(<<"ros", "rosdep_init_update.sh">>),
       File(<<"ros", "ros" \o v \o "build.sh">>) >>

\* lines 358-373: the templates of the one ROS version
ChecksOfVersion(s) ==
    IF s.ros_variant.ros_version = 1 THEN << File(<<"ros", "catkin_config_ros1.yaml">>) >>
    ELSE << File(<<"ros", "rosdep_ignored_keys_ros2.yaml">>),
            File(<<"ros", "colcon_mixin_metadata.sh">>) >>

\* the assertions of lines 379-458
ChecksAfterVersion(s, use_pre_commit) ==
    LET v == fstr(s.ros_variant.ros_version) IN
    << File(<<"ros", "bringup_CMakeLists_ros" \o v \o ".j2">>),
       File(<<"ros", "bringup_package_ros" \o v \o ".xml">>),
       File(<<"ros", "simulation_CMakeLists_ros" \o v \o ".j2">>),
       File(<<"ros", "simulation_package_ros" \o v \o ".xml">>),
       Dir(<<"git">>), Dir(<<"git", "gitlab">>), File(<<"git", "dot_gitignore">>) >> \o
    (IF use_pre_commit THEN << File(<<"git", "dot_pre-commit-config.yaml">>) >> ELSE <<>>) \o
    << Dir(<<"clang">>), File(<<"clang", "dot_clang-format">>),
       File(<<"clang", "dot_clang-tidy">>), Dir(<<"deps">>), File(<<"deps", "deps.repos">>),
       File(<<"deps", "install_deps.sh">>) >>

\* faulty variant: the assertions look at the existence of the path only
AssertHolds_exists(e, c) == ResKind(e, c.path) # "absent"

\* Utilities.assert_dir_existence / assert_file_existence on a resource
AssertHolds(e, c) == ResKind(e, c.path) = c.kind

\* the first assertion of a list that fails, 0 when all hold
FirstFailing(e, checks) ==
    IF \A i \in 1..Len(checks) : AssertHolds(e, checks[i]) THEN 0
    ELSE CHOOSE i \in 1..Len(checks) :
            /\ ~AssertHolds(e, checks[i])
            /\ \A j \in 1..(i - 1) : AssertHolds(e, checks[j])

Required(c) ==
    Raise("Exception", "MissingResource", "is required", [listed |-> {}, path |-> c.path])

\* _check_templates_existance: the attribute _pre_commit_template on success
check_templates_existance(s, e, use_pre_commit) ==
    LET before == ChecksBeforeVersion(s)
        during == ChecksOfVersion(s)
        after  == ChecksAfterVersion(s, use_pre_commit)
        b == FirstFailing(e, before)
        d == FirstFailing(e, during)
        a == FirstFailing(e, after)
    IN  IF b # 0 THEN Required(before[b])
        ELSE IF s.ros_variant.ros_version \notin {1, 2}
        THEN Raise("RosProjectCreatorException", "UnsupportedVariant",
                   "ROS version is not supported. Supported versions are 1 and 2", NoMsg)
        ELSE IF d # 0 THEN Required(during[d])
        ELSE IF a # 0 THEN Required(after[a])
        ELSE Return([pre_commit_template |-> use_pre_commit])

\* _check_git_binary_existance
check_git_binary_existance(e) ==
    IF e.git_bin THEN Return(<<>>)
    ELSE Raise("RosProjectCreatorException", "ExternalToolMissing",
               "Git binary not found in the system", NoMsg)

\* _check_pre_commit_binary_existance
check_pre_commit_binary_existance(e) ==
    IF e.pre_commit_bin THEN Return(<<>>)
    ELSE Raise("RosProjectCreatorException", "ExternalToolMissing",
               "pre-commit binary not found in the system", NoMsg)
---------------------------------------------------------------------------
(* RosProjectCreator._create: the sequence of filesystem operations        *)

Op(op, src, dst, mode, log, ctx) ==
    [op |-> op, src |-> src, dst |-> dst, mode |-> mode, log |-> log, ctx |-> ctx]
MkdirOp(dst)              == Op("mkdir", <<>>, dst, Mode755, TRUE, <<>>)
CopyFileOp(src, dst, mode) == Op("copy_file", src, dst, mode, TRUE, <<>>)
TemplateOp(src, ctx, dst, mode, log) == Op("install_template", src, dst, mode, log, ctx)

folders == <<"config", "include", "launch", "rviz", "scripts", "src", "test">>

\* "for folder in folders": the bringup directory, then the simulation one
RECURSIVE PackageFolders(_)
PackageFolders(fs_) ==
    IF fs_ = <<>> THEN <<>>
    ELSE << MkdirOp(<<"src", "bringup", fs_[1]>>), MkdirOp(<<"src", "simulation", fs_[1]>>) >>
         \o PackageFolders(Tail(fs_))

\* lines 460-662, destinations relative to the project directory
\* faulty variant: the catkin profile is configured for every version
version_is_1_always(v) == TRUE

\* line 466: "if self._ros_variant.get_version() == 1"
version_is_1(v) == v = 1

CreateOps(s, a) ==
    LET v    == s.ros_variant.ros_version
        vs   == fstr(v)
        res_ == <<"docker", ".resources">>
        cver == [c_version |-> s.ros_variant.c_version,
                 cpp_version |-> s.ros_variant.cpp_version]
    IN
    (IF version_is_1(v)
     THEN << MkdirOp(<<".catkin_tools", "profiles", "default">>),
             CopyFileOp(<<"ros", "catkin_config_ros1.yaml">>,
                        <<".catkin_tools", "profiles", "default", "config.yaml">>, Mode644) >>
     ELSE <<>>) \o
    << CopyFileOp(<<"git", "dot_gitignore">>, <<".gitignore">>, Mode644),
       Op("copy_dir", <<"git", "gitlab">>, <<".gitlab">>, Mode755, TRUE, <<>>),
       CopyFileOp(<<"deps", "deps.repos">>, <<"deps.repos">>, Mode644),
       CopyFileOp(<<"deps", "install_deps.sh">>, <<"install_deps.sh">>, Mode755),
       Op("write_file", <<>>, <<"README.md">>, 0, TRUE, [project_id |-> s.project_id]),
       MkdirOp(<<"docker">>),
       MkdirOp(res_),
       CopyFileOp(<<"scripts", "deduplicate_path.sh">>, Append(res_, "deduplicate_path.sh"), Mode755),
       CopyFileOp(<<"scripts", "dot_bash_aliases">>, Append(res_, "dot_bash_aliases"), Mode755),
       CopyFileOp(<<"scripts", "install_core.sh">>, Append(res_, "install_core.sh"), Mode755),
       CopyFileOp(install_mesa_packages_template(s), Append(res_, "install_mesa_packages.sh"), Mode755),
       Op("read_file", <<"ros", "packages_ros" \o vs \o ".txt">>, <<>>, 0, FALSE, <<>>),
       TemplateOp(<<"ros", "install_ros.j2">>, [ros_packages |-> "packages_ros" \o vs],
                  Append(res_, "install_ros.sh"), Mode755, TRUE),
       TemplateOp(<<"ros", "environment_ros" \o vs \o ".j2">>,
                  [ros_distro |-> s.ros_variant.ros_distro],
                  <<"docker", "environment.sh">>, Mode755, TRUE) >> \o
    (IF s.img_user # Str_root
     THEN << CopyFileOp(<<"docker", "environment_root.sh">>,
                        <<"docker", "environment_root.sh">>, Mode755) >>
     ELSE <<>>) \o
    << CopyFileOp(<<"ros", "rosdep_init_update.sh">>, Append(res_, "rosdep_init_update.sh"), Mode755) >> \o
    (IF v = 2
     THEN << CopyFileOp(<<"ros", "rosdep_ignored_keys_ros2.yaml">>,
                        Append(res_, "rosdep_ignored_keys.yaml"), Mode644),
             CopyFileOp(<<"ros", "colcon_mixin_metadata.sh">>,
                        Append(res_, "colcon_mixin_metadata.sh"), Mode755) >>
     ELSE <<>>) \o
    << CopyFileOp(<<"ros", "ros" \o vs \o "build.sh">>, Append(res_, "rosbuild.sh"), Mode755),
       CopyFileOp(<<"docker", "dot_dockerignore">>, <<"docker", "dockerignore">>, Mode644),
       TemplateOp(<<"docker", "build_img.j2">>,
                  [supported_docker_platforms |-> a.supported_docker_platforms,
                   base_img |-> s.base_img, docker_platform |-> s.docker_platform,
                   img_user |-> s.img_user, img_id |-> s.img_id,
                   ros_distro |-> s.ros_variant.ros_distro, ros_version |-> v,
                   project_id |-> s.project_id],
                  <<"docker", "build_img.py">>, Mode755, FALSE),
       TemplateOp(<<"docker", "docker-compose.j2">>,
                  [service |-> "appcont", img_id |-> s.img_id,
                   workspace_dir |-> <<"~", "/", "workspaces", "/", Text(s.project_id)>>,
                   img_workspace_dir |-> s.img_workspace_dir,
                   img_datasets_dir |-> s.img_user_home \o <<"/", "datasets">>,
                   img_ssh_dir |-> s.img_user_home \o <<"/", ".ssh">>,
                   use_git |-> FALSE, ext_uid |-> "1000", ext_upgid |-> "1000"],
                  <<"docker", "docker-compose.yaml">>, Mode644, FALSE),
       CopyFileOp(<<"docker", "entrypoint.sh">>, <<"docker", "entrypoint.sh">>, Mode755),
       CopyFileOp(<<"docker", "Dockerfile">>, <<"docker", "Dockerfile">>, Mode644),
       MkdirOp(<<"src">>), MkdirOp(<<"src", "0_deps">>), MkdirOp(<<"src", "bringup">>),
       MkdirOp(<<"src", "simulation">>),
       CopyFileOp(<<"clang", "dot_clang-format">>, <<"src", ".clang-format">>, Mode644),
       CopyFileOp(<<"clang", "dot_clang-tidy">>, <<"src", ".clang-tidy">>, Mode644) >> \o
    PackageFolders(folders) \o
    << TemplateOp(<<"ros", "bringup_CMakeLists_ros" \o vs \o ".j2">>, cver,
                  <<"src", "bringup", "CMakeLists.txt">>, Mode755, FALSE),
       CopyFileOp(<<"ros", "bringup_package_ros" \o vs \o ".xml">>,
                  <<"src", "bringup", "package.xml">>, Mode644),
       TemplateOp(<<"ros", "simulation_CMakeLists_ros" \o vs \o ".j2">>, cver,
                  <<"src", "simulation", "CMakeLists.txt">>, Mode755, FALSE),
       CopyFileOp(<<"ros", "simulation_package_ros" \o vs \o ".xml">>,
                  <<"src", "simulation", "package.xml">>, Mode644) >>

\* one operation of _create applied to the filesystem
ApplyOp(f, e, project_dir, o) ==
    LET dst == project_dir \o o.dst IN
    CASE o.op = "mkdir"            -> mkdir(f, e, dst, o.mode)
      [] o.op = "copy_file"        -> copy_file(f, e, o.src, dst, o.mode)
      [] o.op = "copy_dir"         -> copy_dir(f, e, o.src, dst, o.mode)
      [] o.op = "write_file"       -> write_file(f, e, <<"text", <<"readme">>, o.ctx>>, dst)
      [] o.op = "read_file"        -> read_file(f, e, o.src)
      [] o.op = "install_template" -> install_template(f, e, o.src, o.ctx, dst, o.mode)
---------------------------------------------------------------------------
(* The runs.  A run is one call of a command or of a constructor (followed *)
(* by create() for the project creator).  The initial states are the valid *)
(* environment and arguments with at most MaxDeviations fields changed.    *)

Runs == {1, 2}
MaxDeviations == 2

Umask077 == 63   \* 0o077, a restrictive umask

OnEnv(f, v) == [on |-> "env", f |-> f, v |-> v]
OnInp(f, v) == [on |-> "inp", f |-> f, v |-> v]

DevList ==
    << OnEnv("euid", 0), OnEnv("sudo_user", "admin"), OnEnv("user", ""),
       OnEnv("arch", "riscv64"), OnEnv("umask", Umask077),
       OnEnv("catalog", [file |-> FALSE, doc |-> "dict", variants |-> CatalogStd]),
       OnEnv("catalog", [file |-> TRUE, doc |-> "list", variants |-> CatalogStd]),
       OnEnv("catalog", [file |-> TRUE, doc |-> "dict", variants |-> CatalogNext]),
       OnEnv("resources_dir", FALSE),
       OnEnv("resources", ResourcesWith(<<"vscode", "tasks.j2">>, "absent")),
       OnEnv("resources", ResourcesWith(<<"vscode", "settings.json">>, "dir")),
       OnEnv("resources", ResourcesWith(<<"ros", "bringup_CMakeLists_ros2.j2">>, "absent")),
       OnEnv("resources", ResourcesWith(<<"git", "gitlab">>, "file")),
       OnEnv("src_mode", Mode755),
       OnEnv("git_bin", FALSE), OnEnv("pre_commit_bin", FALSE),
       OnEnv("git_exit", 1), OnEnv("pre_commit_exit", 1),
       OnEnv("gitconfig", "none"),
       OnEnv("fs0", "empty"), OnEnv("fs0", "used"), OnEnv("fs0", "edited"),
       OnInp("project_id", Str_blank), OnInp("project_id", Str_Rob),
       OnInp("project_dir", <<" ", "\t">>), OnInp("project_dir", <<"/", "tmp", "/", "proj">>),
       OnInp("project_dir", <<" ", "~", "/", "proj", " ">>),
       OnInp("project_dir", <<"~", "/", "..", "/", "admin", "/", "proj">>),
       OnInp("ros_distro", Str_foxy), OnInp("ros_distro", Str_humble_ws),
       OnInp("ros_distro", Str_noetic), OnInp("ros_distro", Str_next),
       OnInp("ros_distro", Str_blank),
       OnInp("base_img", Str_bad_img),
       OnInp("docker_platform", PyNone), OnInp("docker_platform", Str_bogus),
       OnInp("img_id", PyNone), OnInp("img_id", Str_bad_img),
       OnInp("img_user", Str_root), OnInp("img_user", Str_blank),
       OnInp("use_vscode_project", TRUE), OnInp("use_pre_commit", FALSE),
       OnInp("use_console_log", FALSE),
       OnInp("entrypoint", "missing"), OnInp("entrypoint", "file"),
       OnInp("entrypoint", "empty"), OnInp("use_base_img_entrypoint", TRUE),
       OnInp("environment", "file"), OnInp("environment", "missing"),
       OnInp("no_environment", TRUE),
       OnInp("img_workspace_dir", PathV(<<"ws">>)),
       OnInp("img_user_home", PathV(<<>>)),
       OnInp("img_id", Str_blank), OnInp("project_id", Str_dot_x),
       OnInp("supported_docker_platforms", PlatformsAlias) >>

\* the sets of at most n deviations, each a strictly increasing sequence of indices
RECURSIVE DevChoices(_)
DevChoices(n) ==
    IF n = 0 THEN {<<>>}
    ELSE LET less == DevChoices(n - 1) IN
         less \cup {Append(c, i) : c \in {d \in less : Len(d) = n - 1},
                                   i \in 1..Len(DevList)}

Increasing(c) == \A i \in 1..(Len(c) - 1) : c[i] < c[i + 1]

\* a record with the deviations of one kind applied, in order
RECURSIVE Deviate(_, _, _)
Deviate(rec, on, c) ==
    IF c = <<>> THEN rec
    ELSE LET d == DevList[c[1]] IN
         Deviate(IF d.on = on THEN [rec EXCEPT ![d.f] = d.v] ELSE rec, on, Tail(c))

Entries == {"ros_cmd", "ros_api", "vs_cmd", "vs_api"}
Off == [entry |-> "off"]

NoRes ==
    [kind |-> "none", exc |-> "none", text |-> "", msg |-> NoMsg, exit |-> -1,
     stderr |-> FALSE, logged |-> FALSE]
NoHist ==
    [writes |-> {}, cmds |-> <<>>, order |-> <<>>, orphan |-> FALSE, removed |-> {},
     logged |-> {}, unlogged |-> {}]

\* the paths whose node differs between two filesystems
Changed(f, g) ==
    {p \in DOMAIN f \cup DOMAIN g : p \notin DOMAIN f \/ p \notin DOMAIN g \/ f[p] # g[p]}

Terminal == {"done", "failed"}

InitCommon ==
    /\ fs = InitialFs(env.fs0)
    /\ self = [r \in Runs |-> <<>>]
    /\ idx = [r \in Runs |-> 0]
    /\ res = [r \in Runs |-> NoRes]
    /\ hist = [r \in Runs |-> NoHist]
    /\ img_in = <<>>
    /\ img_out = "unset"

\* one run, of any entry point
Init ==
    /\ \E c \in {d \in DevChoices(MaxDeviations) : Increasing(d)}, en \in Entries :
          /\ env = Deviate(EnvBase, "env", c)
          /\ inp = [r \in Runs |-> IF r = 1 THEN [Deviate(InpBase, "inp", c) EXCEPT !.entry = en]
                                   ELSE Off]
          /\ pc = [r \in Runs |->
                     IF r # 1 THEN "off"
                     ELSE IF en \in {"ros_cmd", "vs_cmd"} THEN "main" ELSE "validate"]
    /\ InitCommon
---------------------------------------------------------------------------
(* How an exception ends a run: the except clauses of the constructors, of *)
(* create() and of the two main functions                                  *)

IsCommand(en) == en \in {"ros_cmd", "vs_cmd"}

\* ColorizedLogger: disabled when there is neither a console nor a file handler
LoggerEnabled(a) == a.use_console_log \/ a.log_file # ""

\* faulty variant: the main functions silence TypeError
OwnException_TypeError(en) == "TypeError"

\* the exception class a main function silences (it exits without printing)
OwnException(en) ==
    IF en = "ros_cmd" THEN "RosProjectCreatorException" ELSE "VscodeProjectCreatorException"

\* where: "main", "ros" (RosProjectCreator: only its own exception class is logged),
\* "vs" (VscodeProjectCreator: every Exception is logged), "vs_in_ros" (the
\* VscodeProjectCreator built by RosProjectCreator.__init__, whose logger gets the
\* log level as use_console_log)
Failure(en, a, x, where) ==
    LET logged == CASE where = "ros" -> x.exc = "RosProjectCreatorException" /\ LoggerEnabled(a)
                    [] where = "vs"  -> LoggerEnabled(a)
                    [] where = "vs_in_ros" -> TRUE
                    [] OTHER -> FALSE
        console == IF where = "vs_in_ros" THEN TRUE ELSE a.use_console_log
        printed == IsCommand(en) /\ x.exc # OwnException(en)
    IN  [kind |-> x.kind, exc |-> x.exc, text |-> x.text, msg |-> x.msg,
         exit |-> IF ~IsCommand(en) THEN -1 ELSE IF x.exc = "SystemExit" THEN 2 ELSE 1,
         stderr |-> printed \/ (logged /\ console),
         logged |-> logged]

Success(en) == [NoRes EXCEPT !.exit = IF IsCommand(en) THEN 0 ELSE -1]

\* the effect of one step of run r: the next position, the outcome, the filesystem,
\* the attributes, the step index and what is added to the history of the run
Effect(pcv, resv, fsv, selfv, idxv) ==
    [pc |-> pcv, res |-> resv, fs |-> fsv, self |-> selfv, idx |-> idxv,
     cmds |-> <<>>, order |-> <<>>, orphan |-> FALSE, logs |-> {}, dsts |-> {}]

\* a step on the destination dst, announced ("Creating ... '<dst>'") or not before it
\* acts
OnDst(n, dst, log) == [n EXCEPT !.dsts = {dst}, !.logs = IF log THEN {dst} ELSE {}]

Goto(r, pcv, fsv, selfv, idxv) == Effect(pcv, res[r], fsv, selfv, idxv)
\* faulty variant: an error sends the run back to the validation (a retry)
Fails_retry(r, fsv, x, where) ==
    Effect("validate", Failure(inp[r].entry, inp[r], x, where), fsv, self[r], idx[r])

\* faulty variant: an error undoes what the run has written (a rollback)
Fails_rollback(r, fsv, x, where) ==
    Effect("failed", Failure(inp[r].entry, inp[r], x, where), InitialFs(env.fs0), self[r], idx[r])

\* an exception leaves the run: nothing of it is executed any more
Fails(r, fsv, x, where) ==
    Effect("failed", Failure(inp[r].entry, inp[r], x, where), fsv, self[r], idx[r])
Ends(r, fsv) == Effect("done", Success(inp[r].entry), fsv, self[r], idx[r])

Apply(r, n) ==
    /\ pc' = [pc EXCEPT ![r] = n.pc]
    /\ res' = [res EXCEPT ![r] = n.res]
    /\ fs' = n.fs
    /\ self' = [self EXCEPT ![r] = n.self]
    /\ idx' = [idx EXCEPT ![r] = n.idx]
    /\ hist' = [hist EXCEPT ![r] =
                  [writes  |-> @.writes \cup Changed(fs, n.fs),
                   removed |-> @.removed \cup (DOMAIN fs \ DOMAIN n.fs),
                   cmds    |-> @.cmds \o n.cmds,
                   order   |-> @.order \o n.order,
                   orphan  |-> @.orphan \/ n.orphan,
                   logged  |-> @.logged \cup n.logs,
                   unlogged |-> @.unlogged \cup
                                {p \in n.dsts : p \in Changed(fs, n.fs) /\ p \notin n.logs}]]
    /\ UNCHANGED <<env, inp, img_in, img_out>>

\* an error of the interpreter or of the operating system, not of the taxonomy
OSError(text) == Raise("OSError", "OSError", text, NoMsg)
---------------------------------------------------------------------------
(* create_ros_project.main and RosProjectCreator                           *)

RosParams ==
    <<"project_id", "project_dir", "ros_distro", "base_img", "supported_docker_platforms",
      "docker_platform", "img_id", "img_user", "use_vscode_project", "use_pre_commit",
      "use_console_log", "log_file", "log_level">>
RosDefaults == <<BoolV(FALSE), BoolV(TRUE), BoolV(TRUE), StrV(""), StrV("DEBUG")>>

OptStrV(s) == IF s = PyNone THEN NoneV ELSE StrV(s)
\* a script given on the command line ("unset": the option is not used, "empty": it
\* is used with the empty string): None when args.<option> is not truthy
ScriptV(opt) == IF opt \in {"unset", "empty"} THEN NoneV ELSE PathV(<<"/", "tmp", "/", opt>>)

\* faulty variant: only a non-empty value conflicts with the flag of its group
mutually_exclusive_truthy(flag, opt) == flag /\ opt \notin {"unset", "empty"}

\* add_mutually_exclusive_group: parse_args refuses a flag together with the other
\* option of its group, whatever the value of that option
mutually_exclusive(flag, opt) == flag /\ opt # "unset"
Untag(b) == [n \in DOMAIN b |-> b[n].v]

\* the positional arguments of the call at lines 133-149 of create_ros_project.py
RosMainArgs(a) ==
    <<StrV(a.project_id), PathV(a.project_dir), StrV(a.ros_distro), StrV(a.base_img),
      StrV(a.img_user), OptStrV(a.img_id), ScriptV(a.entrypoint),
      BoolV(a.use_base_img_entrypoint), ScriptV(a.environment), BoolV(~a.no_environment),
      BoolV(a.use_vscode_project), BoolV(a.use_pre_commit), BoolV(a.use_console_log),
      StrV(a.log_file), StrV(a.log_level)>>

\* the catalog file as a command sees it: absent when the resources directory is
CatalogOf(e) == IF e.resources_dir THEN e.catalog ELSE [e.catalog EXCEPT !.file = FALSE]

TooManyArguments ==
    Raise("TypeError", "CallError", "__init__() takes fewer positional arguments", NoMsg)

\* main() of create_ros_project.py up to the construction of the RosProjectCreator:
\* a faulty variant of is_root: the effective user id is not looked at
is_root_never(e) == FALSE

\* os.geteuid() == 0, the first statement of both main() functions
is_root(e) == e.euid = 0

\* the arguments bound to the parameters of __init__, or the first error
create_ros_project_checks(a, e) ==
    LET b == BindArgs(RosParams, RosDefaults, RosMainArgs(a)) IN
    IF is_root(e)
    THEN Raise("RuntimeError", "RootRefused", "This script must not be run with sudo or as root", NoMsg)
    ELSE IF DOMAIN load_yaml(CatalogOf(e)) = {}
    THEN Raise("Exception", "MissingResource", "No ROS variants found in the resource path", NoMsg)
    ELSE IF mutually_exclusive(a.use_base_img_entrypoint, a.entrypoint)
    THEN Raise("SystemExit", "InvalidArgument",
               "argument --entrypoint: not allowed with argument --use-base-img-entrypoint", NoMsg)
    ELSE IF mutually_exclusive(a.no_environment, a.environment)
    THEN Raise("SystemExit", "InvalidArgument",
               "argument --environment: not allowed with argument --no-environment", NoMsg)
    ELSE IF a.entrypoint = "missing"
    THEN Raise("FileNotFoundError", "MissingResource", "Custom entrypoint file does not exist", NoMsg)
    ELSE IF a.environment = "missing"
    THEN Raise("FileNotFoundError", "MissingResource", "Custom environment file does not exist", NoMsg)
    ELSE IF ~b.ok THEN TooManyArguments
    ELSE Return(Untag(b.val))

\* the arguments RosProjectCreator.__init__ runs with
RosArgs(r) == IF inp[r].entry = "ros_api" THEN inp[r] ELSE self[r].args

create_ros_project_main(r) ==
    /\ pc[r] = "main"
    /\ inp[r].entry = "ros_cmd"
    /\ LET x == create_ros_project_checks(inp[r], env) IN
       Apply(r, IF x.ok THEN Goto(r, "validate", fs, [args |-> x.val], 0)
                ELSE Fails(r, fs, x, "main"))

\* _install_items as one call: the entries in the order given, up to the first failure
RECURSIVE InstallAll(_, _, _, _, _)
InstallAll(f, e, workspace_dir, items, order) ==
    IF order = <<>> THEN Step(TRUE, f, "none", "none", TRUE, TRUE, TRUE)
    ELSE LET st == InstallItem(f, e, workspace_dir, order[1], items[order[1]]) IN
         IF st.ok THEN InstallAll(st.fs, e, workspace_dir, items, Tail(order)) ELSE st

StepError(st) == Raise(st.exc, st.kind, "", NoMsg)

\* the exception of a failed entry: the messages of lines 222, 244, 260 and 284 name
\* the source path of the entry
StepErrorAt(st, item) ==
    Raise(st.exc, st.kind, "",
          IF st.kind = "MissingResource" THEN [listed |-> {}, path |-> item.src] ELSE NoMsg)

\* lines 77-213 of RosProjectCreator.__init__: the arguments, then the
\* VscodeProjectCreator when use_vscode_project is set
RosProjectCreator_init(r) ==
    /\ pc[r] = "validate"
    /\ inp[r].entry \in {"ros_cmd", "ros_api"}
    /\ LET a == RosArgs(r)
           x == RosCheckArguments(a, env, fs)
           b == BindArgs(VscodeParams, VscodeDefaults, RosVscodeArgs(x.val, a))
           v == IF b.ok THEN VscodeCheckArguments(b.val, env) ELSE TooManyArguments
           items == create_items_to_install(v.val, env)
           inst == InstallAll(fs, env, v.val.workspace_dir, items, sorted(DOMAIN items))
           attrs == [args |-> a, vscode_project_creator |-> a.use_vscode_project] @@ x.val
       IN  Apply(r, IF ~x.ok THEN Fails(r, fs, x, "ros")
                    ELSE IF ~a.use_vscode_project THEN Goto(r, "templates", fs, attrs, 0)
                    ELSE IF ~v.ok THEN Fails(r, fs, v, "vs_in_ros")
                    ELSE IF ~inst.ok THEN Fails(r, inst.fs, StepError(inst), "vs_in_ros")
                    ELSE Goto(r, "templates", inst.fs, attrs, 0))

\* lines 215-220: the templates, the git binary, the pre-commit binary.  The command
\* ends here: main() builds the object and returns
RosProjectCreator_check(r) ==
    /\ pc[r] = "templates"
    /\ LET a == self[r].args
           t == check_templates_existance(self[r], env, a.use_pre_commit)
           g == check_git_binary_existance(env)
           p == check_pre_commit_binary_existance(env)
       IN  Apply(r, IF ~t.ok THEN Fails(r, fs, t, "ros")
                    ELSE IF ~g.ok THEN Fails(r, fs, g, "ros")
                    ELSE IF a.use_pre_commit /\ ~p.ok THEN Fails(r, fs, p, "ros")
                    ELSE IF inp[r].entry = "ros_cmd" THEN Ends(r, fs)
                    ELSE Goto(r, "create", fs, t.val @@ self[r], 0))

\* an error of a filesystem helper as the exception that reaches create()
HelperError(w) ==
    Raise(w.err,
          IF w.err = "TemplateNotFound" THEN "MissingResource"
          ELSE IF w.err = "Exception" THEN "FileExists" ELSE "OSError",
          "", NoMsg)

\* create(), lines 703-709: the project directory, then create() of the
\* VscodeProjectCreator, a method that class does not have
RosProjectCreator_create(r) ==
    /\ pc[r] = "create"
    /\ LET m == mkdir(fs, env, self[r].project_dir, Mode755)
           n == IF ~m.ok THEN Fails(r, fs, HelperError(m), "ros")
                ELSE IF self[r].vscode_project_creator
                THEN Fails(r, m.fs, Raise("AttributeError", "CallError",
                                          "object has no attribute 'create'", NoMsg), "ros")
                ELSE Goto(r, "install", m.fs, self[r], 1)
       IN  Apply(r, OnDst(n, self[r].project_dir, TRUE))

\* one operation of _create (line 711)
RosProjectCreator_create_step(r) ==
    /\ pc[r] = "install"
    /\ inp[r].entry = "ros_api"
    /\ LET ops == CreateOps(self[r], self[r].args)
           w == ApplyOp(fs, env, self[r].project_dir, ops[idx[r]])
           n == IF ~w.ok THEN Fails(r, w.fs, HelperError(w), "ros")
                ELSE IF idx[r] < Len(ops) THEN Goto(r, "install", w.fs, self[r], idx[r] + 1)
                ELSE Goto(r, "git", w.fs, self[r], 0)
       IN  Apply(r, IF ops[idx[r]].op = "read_file" THEN n
                    ELSE OnDst(n, self[r].project_dir \o ops[idx[r]].dst, ops[idx[r]].log))

GitInit == <<"git", "init", "--initial-branch=main">>
PreCommitInstall == <<"pre-commit", "install">>
ToolFailed == Raise("CalledProcessError", "ExternalToolFailed", "returned non-zero exit status", NoMsg)

\* faulty variant: the exit status of an external command is not looked at
CalledProcessError_never(returncode) == FALSE

\* subprocess.run(..., check=True): a non-zero exit status raises CalledProcessError
CalledProcessError(returncode) == returncode # 0

\* what "git init --initial-branch=main" leaves in its working directory
GitRepository(f, e, dir) ==
    LET d == MakeDirs(f, Append(dir, ".git"), e.umask).fs IN
    Put(d, dir \o <<".git", "HEAD">>,
        FileNode(BitAndNot(Mode666, e.umask), <<"text", <<"ref: refs/heads/main">>, <<>> >>))

\* what "pre-commit install" leaves: the hook of the repository
PreCommitHook(f, e, dir) ==
    LET d == MakeDirs(f, dir \o <<".git", "hooks">>, e.umask).fs IN
    Put(d, dir \o <<".git", "hooks", "pre-commit">>,
        FileNode(BitAndNot(Mode777, e.umask), <<"text", <<"pre-commit hook">>, <<>> >>))

\* _initializate_git_repo (line 712), then the choice of line 714
RosProjectCreator_initializate_git_repo(r) ==
    /\ pc[r] = "git"
    /\ LET n == IF CalledProcessError(env.git_exit) THEN Fails(r, fs, ToolFailed, "ros")
                ELSE IF self[r].pre_commit_template
                THEN Goto(r, "precommit", GitRepository(fs, env, self[r].project_dir), self[r], 0)
                ELSE Ends(r, GitRepository(fs, env, self[r].project_dir))
       IN  Apply(r, [n EXCEPT !.cmds = <<GitInit>>])

\* _install_pre_commit_config (line 715)
RosProjectCreator_install_pre_commit_config(r) ==
    /\ pc[r] = "precommit"
    /\ LET dir == self[r].project_dir
           c == copy_file(fs, env, <<"git", "dot_pre-commit-config.yaml">>,
                          Append(dir, ".pre-commit-config.yaml"), Mode644)
           n == IF ~c.ok THEN Fails(r, c.fs, HelperError(c), "ros")
                ELSE IF CalledProcessError(env.pre_commit_exit)
                THEN [Fails(r, c.fs, ToolFailed, "ros") EXCEPT !.cmds = <<PreCommitInstall>>]
                ELSE [Ends(r, PreCommitHook(c.fs, env, dir)) EXCEPT !.cmds = <<PreCommitInstall>>]
       IN  Apply(r, OnDst(n, Append(dir, ".pre-commit-config.yaml"), TRUE))
---------------------------------------------------------------------------
(* create_vscode_project.main and VscodeProjectCreator                     *)

\* the positional arguments of the call at lines 88-100 of create_vscode_project.py
VscodeMainArgs(a, img_user, img_user_home) ==
    <<OptStrV(clean_str(a.project_id)), OptStrV(clean_str(a.ros_distro)),
      OptStrV(clean_str(a.img_id)), OptStrV(img_user), PathV(img_user_home),
      PathV(Strip(a.workspace_dir.v)), PathV(Strip(a.img_workspace_dir.v)),
      BoolV(a.use_host_nvidia_driver), BoolV(a.use_console_log), StrV(a.log_file),
      StrV(a.log_level)>>

\* the arguments of a direct call of the constructor
VscodeCallArgs(a) ==
    <<OptStrV(a.ros_distro), OptStrV(a.img_id), OptStrV(a.img_user), a.img_user_home,
      a.workspace_dir, a.img_workspace_dir, BoolV(a.use_host_nvidia_driver),
      BoolV(a.use_console_log), StrV(a.log_file), StrV(a.log_level)>>

\* lines 76-82 of create_vscode_project.py: the home given by --img-user-home, or
\* the one derived from the image user
img_user_home_str(a) ==
    LET given == Strip(a.img_user_home.v) IN
    IF given = <<>> THEN ImgUserHome(clean_str(a.img_user)) ELSE given

\* main() of create_vscode_project.py up to the construction of the creator
create_vscode_project_checks(a, e) ==
    LET img_user == clean_str(a.img_user)
        img_user_home == img_user_home_str(a)
        b == BindArgs(VscodeParams, VscodeDefaults, VscodeMainArgs(a, img_user, img_user_home))
    IN
    IF is_root(e)
    THEN Raise("RuntimeError", "RootRefused", "This script must not be run with sudo or as root", NoMsg)
    ELSE IF DOMAIN load_yaml(CatalogOf(e)) = {}
    THEN Raise("Exception", "MissingResource", "No ROS variants found in the resource path", NoMsg)
    ELSE IF ~is_absolute(img_user_home)
    THEN Raise("RuntimeError", "InvalidArgument", "Image user home path must be an absolute path", NoMsg)
    ELSE IF ~b.ok THEN TooManyArguments
    ELSE Return(b.val)

create_vscode_project_main(r) ==
    /\ pc[r] = "main"
    /\ inp[r].entry = "vs_cmd"
    /\ LET x == create_vscode_project_checks(inp[r], env) IN
       Apply(r, IF x.ok THEN Goto(r, "validate", fs, [args |-> x.val], 0)
                ELSE Fails(r, fs, x, "main"))

\* lines 66-143 of VscodeProjectCreator.__init__
VscodeProjectCreator_init(r) ==
    /\ pc[r] = "validate"
    /\ inp[r].entry \in {"vs_cmd", "vs_api"}
    /\ LET b == IF inp[r].entry = "vs_api"
                THEN BindArgs(VscodeParams, VscodeDefaults, VscodeCallArgs(inp[r]))
                ELSE [ok |-> TRUE, val |-> self[r].args]
           v == IF b.ok THEN VscodeCheckArguments(b.val, env) ELSE TooManyArguments
       IN  Apply(r, IF v.ok THEN Goto(r, "manifest", fs, v.val, 0)
                    ELSE Fails(r, fs, v, "vs"))

\* _install_items, lines 203-205: the manifest and the order of its keys
VscodeProjectCreator_create_items(r) ==
    /\ pc[r] = "manifest"
    /\ inp[r].entry \in {"vs_cmd", "vs_api", "installer"}
    /\ LET items == IF inp[r].entry = "installer" THEN inp[r].items
                    ELSE create_items_to_install(self[r], env) IN
       Apply(r, Goto(r, "install", fs,
                     [items |-> items, order |-> sorted(DOMAIN items)] @@ self[r], 1))

\* _install_items, lines 206-311: the entry of the next key
VscodeProjectCreator_install_item(r) ==
    /\ pc[r] = "install"
    /\ inp[r].entry \in {"vs_cmd", "vs_api", "installer"}
    /\ LET key == self[r].order[idx[r]]
           st  == InstallItem(fs, env, self[r].workspace_dir, key, self[r].items[key])
           n   == IF ~st.ok THEN Fails(r, st.fs, StepErrorAt(st, self[r].items[key]), "vs")
                  ELSE IF idx[r] < Len(self[r].order)
                  THEN Goto(r, "install", st.fs, self[r], idx[r] + 1)
                  ELSE Ends(r, st.fs)
       IN  Apply(r, OnDst([n EXCEPT !.order = <<key>>, !.orphan = st.reached /\ ~st.parent_ok],
                          joinpath(self[r].workspace_dir, key), st.logged))
---------------------------------------------------------------------------
(* One run                                                                 *)

Next ==
    \E r \in Runs :
        \/ create_ros_project_main(r)
        \/ RosProjectCreator_init(r)
        \/ RosProjectCreator_check(r)
        \/ RosProjectCreator_create(r)
        \/ RosProjectCreator_create_step(r)
        \/ RosProjectCreator_initializate_git_repo(r)
        \/ RosProjectCreator_install_pre_commit_config(r)
        \/ create_vscode_project_main(r)
        \/ VscodeProjectCreator_init(r)
        \/ VscodeProjectCreator_create_items(r)
        \/ VscodeProjectCreator_install_item(r)

Spec == Init /\ [][Next]_vars
---------------------------------------------------------------------------
(* What the properties below speak about                                   *)

Phase(p) ==
    CASE p \in {"main", "validate"}     -> "Validating"
      [] p \in {"templates", "manifest"} -> "BuildingManifest"
      [] p \in {"create", "install"}     -> "Installing"
      [] p \in {"git", "precommit"}      -> "RunningPostHooks"
      [] p = "done"                      -> "Done"
      [] p = "failed"                    -> "Failed"
      [] OTHER                           -> "Off"

PhaseRank(p) ==
    CASE Phase(p) = "Validating"       -> 1
      [] Phase(p) = "BuildingManifest" -> 2
      [] Phase(p) = "Installing"       -> 3
      [] Phase(p) = "RunningPostHooks" -> 4
      [] Phase(p) = "Done"             -> 5
      [] OTHER                         -> 0

\* the filesystem the runs started on
Fs0 == InitialFs(env.fs0)

\* the output directory a run is asked to fill, resolved
OutputDir(r) ==
    IF inp[r].entry \in {"ros_cmd", "ros_api"}
    THEN expanduser_resolve(Strip(inp[r].project_dir))
    ELSE expanduser_resolve(inp[r].workspace_dir.v)

\* the configuration of a run of the project creator is valid: no root, no
\* conflicting options, every argument accepted, every resource and both binaries
\* present, both external commands succeeding
ValidConfigurationOn(r, f) ==
    LET a == inp[r]
        x == RosCheckArguments(a, env, f)
    IN  /\ env.euid # 0
        /\ a.entrypoint = "unset" /\ a.environment = "unset"
        /\ a.project_dir # PyNone
        /\ x.ok
        /\ check_templates_existance(x.val, env, a.use_pre_commit).ok
        /\ env.git_bin /\ env.pre_commit_bin
        /\ env.git_exit = 0 /\ env.pre_commit_exit = 0

ValidConfiguration(r) == ValidConfigurationOn(r, Fs0)

\* the three files and the repository of the scenario
ProjectCreated(r) ==
    LET d == OutputDir(r) IN
    /\ IsFile(fs, d \o <<"src", "bringup", "CMakeLists.txt">>)
    /\ IsFile(fs, d \o <<".gitignore">>)
    /\ IsFile(fs, d \o <<"docker", "Dockerfile">>)
    /\ IsFile(fs, d \o <<".git", "HEAD">>)
    /\ fs[d \o <<".git", "HEAD">>].data[2] = <<"ref: refs/heads/main">>
    /\ GitInit \in {hist[r].cmds[i] : i \in 1..Len(hist[r].cmds)}

\* C1: a run of the create-project command on a valid configuration that has ended
\* has ended in Done with exit code 0, the three files created and the repository
\* initialized on branch main
C1_CommandCreatesProject ==
    \A r \in Runs :
        (inp[r].entry = "ros_cmd" /\ ValidConfiguration(r) /\ pc[r] \in Terminal)
        => (pc[r] = "done" /\ res[r].exit = 0 /\ ProjectCreated(r))

\* one step seen from run r: a terminal run does nothing more; a change of phase
\* goes forward in the order of the phases or to Failed; the first error (and only
\* an error) takes the run to Failed at once
PhaseStep(r) ==
    /\ pc[r] \in Terminal =>
          (pc'[r] = pc[r] /\ res'[r] = res[r] /\ hist'[r] = hist[r] /\ self'[r] = self[r])
    /\ (\A q \in Runs : pc[q] \in Terminal \cup {"off"}) => fs' = fs
    /\ Phase(pc'[r]) # Phase(pc[r]) =>
          (pc'[r] = "failed" \/ PhaseRank(pc'[r]) > PhaseRank(pc[r]))
    /\ (res[r].kind = "none" /\ res'[r].kind # "none") => pc'[r] = "failed"
    /\ (pc[r] # "failed" /\ pc'[r] = "failed") => res'[r].kind # "none"

\* C2: the phases Validating, BuildingManifest, Installing, RunningPostHooks, Done
\* are passed in that order only, the first error leads directly to Failed, and
\* nothing happens (no phase change, no write, no command) after Done or Failed:
\* no phase is entered a second time
C2_PhasesInOrder == [][\A r \in Runs : PhaseStep(r)]_vars

\* a run that has passed every phase and both post-install commands
C2_Witness ==
    /\ inp[1].entry = "ros_api"
    /\ pc[1] = "done"
    /\ hist[1].cmds = <<GitInit, PreCommitInstall>>
    /\ hist[1].writes # {}

\* the nodes at and below a directory are those of the initial filesystem
UntouchedUnder(dir) ==
    \A p \in DOMAIN fs \cup DOMAIN Fs0 :
        IsUnder(p, dir) => (p \in DOMAIN fs /\ p \in DOMAIN Fs0 /\ fs[p] = Fs0[p])

\* C3: a run of the project-creator command against an output directory that exists
\* already (a second run of an otherwise valid configuration) fails with
\* PathConflict, and nothing in that directory is created, modified or deleted
C3_SecondRunIsPathConflict ==
    \A r \in Runs :
        (/\ inp[r].entry = "ros_cmd"
         /\ Exists(Fs0, OutputDir(r))
         /\ ValidConfigurationOn(r, FsBase)
         /\ pc[r] \in Terminal)
        => (pc[r] = "failed" /\ res[r].kind = "PathConflict" /\ UntouchedUnder(OutputDir(r)))

\* the distribution identifier of a run, trimmed, is no key of the catalog
DistroAbsent(r) == clean_str(inp[r].ros_distro) \notin DOMAIN load_yaml(CatalogOf(env))

\* C4: a run whose distribution identifier is absent from the catalog fails (a
\* command with a non-zero exit code) and the filesystem after it is the filesystem
\* before it
C4_UnknownDistroTouchesNothing ==
    \A r \in Runs :
        (inp[r].entry # "off" /\ DistroAbsent(r) /\ pc[r] \in Terminal)
        => (/\ pc[r] = "failed"
            /\ IsCommand(inp[r].entry) => res[r].exit \notin {0, -1}
            /\ fs = Fs0
            /\ hist[r].writes = {})

\* a constructor has refused an identifier that a non-empty catalog does not hold
C4_Witness ==
    /\ inp[1].entry \in {"ros_api", "vs_api"}
    /\ DistroAbsent(1)
    /\ pc[1] = "failed"
    /\ res[1].kind = "UnsupportedVariant"
    /\ res[1].msg.listed # {}
    /\ fs = Fs0
---------------------------------------------------------------------------
(* The variant lookup on its own: RosVariant(ros_distro, file) for the     *)
(* identifiers below, padded with at most MaxPad whitespace characters on  *)
(* each side, over the catalog documents below                             *)

MaxPad == 1

Str_Humble == <<"H", "u", "m", "b", "l", "e">>
LookupNames == {Str_humble, Str_noetic, Str_foxy, Str_next, Str_Humble, <<>>}

RECURSIVE Pads(_)
Pads(n) ==
    IF n = 0 THEN {<<>>}
    ELSE Pads(n - 1) \cup {Append(p, c) : p \in {q \in Pads(n - 1) : Len(q) = n - 1},
                                          c \in SpaceChars}

LookupIds ==
    {l \o n \o t : l \in Pads(MaxPad), n \in LookupNames, t \in Pads(MaxPad)} \cup {PyNone}

CatalogHumble == Str_humble :> VariantRecord(Str_humble, 2, "22.04", "17", "17")
LookupCatalogs ==
    [file : BOOLEAN, doc : {"dict", "list", "null", "invalid"},
     variants : {CatalogStd, CatalogNext, CatalogHumble, EmptyDict}]

InitVariant ==
    /\ \E d \in LookupIds, cat \in LookupCatalogs :
          /\ env = [EnvBase EXCEPT !.catalog = cat]
          /\ inp = [r \in Runs |-> IF r = 1 THEN [InpBase EXCEPT !.entry = "lookup", !.ros_distro = d]
                                   ELSE Off]
    /\ pc = [r \in Runs |-> IF r = 1 THEN "lookup" ELSE "off"]
    /\ InitCommon

\* the construction of a RosVariant
RosVariant_init(r) ==
    /\ pc[r] = "lookup"
    /\ LET x == RosVariant(inp[r].ros_distro, env.catalog) IN
       Apply(r, IF x.ok THEN Effect("done", NoRes, fs, x.val, 0)
                ELSE Fails(r, fs, x, "main"))

NextVariant == \E r \in Runs : RosVariant_init(r)

SpecVariant == InitVariant /\ [][NextVariant]_vars

\* the identifier looked up, and the catalog as loaded
LookupKey(r) == clean_str(inp[r].ros_distro)
Loaded == load_yaml(env.catalog)
Enumerated == {<<d, Loaded[d].ros_version>> : d \in DOMAIN Loaded}

\* C5 as stated: every identifier absent from the catalog is refused with
\* UnsupportedVariant and a message that enumerates every identifier of the catalog
\* with its version tag; every identifier present gets its record
C5_LookupAsStated ==
    \A r \in Runs :
        (inp[r].entry = "lookup" /\ pc[r] \in Terminal)
        => IF LookupKey(r) \in DOMAIN Loaded
           THEN pc[r] = "done" /\ self[r] = Loaded[LookupKey(r)]
           ELSE /\ pc[r] = "failed"
                /\ res[r].kind = "UnsupportedVariant"
                /\ res[r].msg.listed = Enumerated

\* C5, amended: with a catalog that loads as a non-empty mapping, an identifier that
\* is non-empty after trimming gets its record when the trimmed identifier is a key,
\* and is refused with UnsupportedVariant and the enumeration of every key with its
\* version tag when it is not; an identifier that is None, empty or blank is refused
\* as an invalid argument, and any identifier is refused, for the missing resource,
\* when the catalog is missing or loads as empty; these two messages enumerate nothing
C5_LookupOfTrimmedId ==
    \A r \in Runs :
        (inp[r].entry = "lookup" /\ pc[r] \in Terminal)
        => CASE ~Truthy(LookupKey(r)) ->
                    /\ pc[r] = "failed"
                    /\ res[r].kind = "InvalidArgument"
                    /\ res[r].msg.listed = {}
             [] Truthy(LookupKey(r)) /\ Loaded = EmptyDict ->
                    /\ pc[r] = "failed"
                    /\ res[r].kind = "MissingResource"
                    /\ res[r].msg.listed = {}
             [] Truthy(LookupKey(r)) /\ Loaded # EmptyDict /\ LookupKey(r) \in DOMAIN Loaded ->
                    /\ pc[r] = "done"
                    /\ self[r] = Loaded[LookupKey(r)]
                    /\ self[r].ros_distro = LookupKey(r)
             [] OTHER ->
                    /\ pc[r] = "failed"
                    /\ res[r].kind = "UnsupportedVariant"
                    /\ res[r].msg.listed = Enumerated
                    /\ Enumerated # {}

\* an identifier padded with whitespace whose trimmed form the catalog does not hold
\* has been refused with the enumeration of the catalog
C5_Witness ==
    /\ inp[1].entry = "lookup"
    /\ inp[1].ros_distro # PyNone
    /\ inp[1].ros_distro # LookupKey(1)
    /\ pc[1] = "failed"
    /\ res[1].kind = "UnsupportedVariant"
    /\ Cardinality(res[1].msg.listed) >= 2
---------------------------------------------------------------------------
(* The installed tree                                                      *)

\* one entry of the project creator's manifest is in place: a directory with the
\* fixed directory mode, a file with the mode of the entry (execute bits exactly
\* when the entry asks for 0o755), the README without execute bits
OpInstalled(f, dir, o) ==
    LET dst == dir \o o.dst IN
    CASE o.op \in {"mkdir", "copy_dir"} -> IsDir(f, dst) /\ f[dst].mode = Mode755
      [] o.op \in {"copy_file", "install_template"} ->
             /\ IsFile(f, dst)
             /\ f[dst].mode = o.mode
             /\ HasExec(f[dst].mode) <=> (o.mode = Mode755)
      [] o.op = "write_file" -> IsFile(f, dst) /\ ~HasExec(f[dst].mode)
      [] OTHER -> TRUE

\* one entry of the editor-integration manifest is in place
ItemInstalled(f, dir, key, item) ==
    LET dst == joinpath(dir, key) IN
    /\ IsFile(f, dst)
    /\ f[dst].mode = (IF item.exec THEN Mode775 ELSE Mode664)
    /\ HasExec(f[dst].mode) <=> item.exec

\* C6: after a successful run every destination of the manifest exists under the
\* output root with the declared permission bits: execute bits on the entries
\* declared executable, none on the others
C6_ManifestInstalled ==
    \A r \in Runs :
        /\ (inp[r].entry = "ros_api" /\ pc[r] = "done") =>
              LET ops == CreateOps(self[r], self[r].args) IN
              /\ \A i \in 1..Len(ops) : OpInstalled(fs, OutputDir(r), ops[i])
              /\ self[r].pre_commit_template =>
                     /\ IsFile(fs, Append(OutputDir(r), ".pre-commit-config.yaml"))
                     /\ ~HasExec(fs[Append(OutputDir(r), ".pre-commit-config.yaml")].mode)
        /\ (inp[r].entry \in {"vs_cmd", "vs_api"} /\ pc[r] = "done") =>
              \A key \in DOMAIN self[r].items :
                  ItemInstalled(fs, OutputDir(r), key, self[r].items[key])

\* a project installed from resource files that carry execute bits themselves: the
\* entries declared non-executable have lost them
C6_Witness ==
    /\ inp[1].entry = "ros_api"
    /\ pc[1] = "done"
    /\ env.src_mode = Mode755
    /\ ~HasExec(fs[Append(OutputDir(1), ".gitignore")].mode)
    /\ HasExec(fs[Append(OutputDir(1), "install_deps.sh")].mode)
---------------------------------------------------------------------------
(* The validation of an image name on its own: lines 133-141 (base image)  *)
(* and 176-184 (image id) of RosProjectCreator.__init__ applied to every   *)
(* string of at most ImgMaxLen characters of ImgChars                      *)

ImgMaxLen == 5
ImgChars == {"a", "0", "A", ".", "_", "-", "/", ":"}

ImgStrings == UNION {[1..n -> ImgChars] : n \in 0..ImgMaxLen}

InitImg ==
    /\ img_in \in ImgStrings
    /\ img_out = "unset"
    /\ env = EnvBase
    /\ inp = [r \in Runs |-> Off]
    /\ pc = [r \in Runs |-> "off"]
    /\ fs = FsBase
    /\ self = [r \in Runs |-> <<>>]
    /\ idx = [r \in Runs |-> 0]
    /\ res = [r \in Runs |-> NoRes]
    /\ hist = [r \in Runs |-> NoHist]

\* clean_str, assert_non_empty, is_valid_docker_image_name: the verdict on a name
ImageNameVerdict(name) ==
    LET cleaned == clean_str(name) IN
    IF ~Truthy(cleaned) THEN "invalid"
    ELSE IF is_valid_docker_image_name(cleaned) THEN "valid" ELSE "invalid"

ValidateImageName ==
    /\ img_out = "unset"
    /\ img_out' = ImageNameVerdict(img_in)
    /\ UNCHANGED <<env, inp, fs, pc, self, idx, res, hist, img_in>>

NextImg == ValidateImageName

SpecImg == InitImg /\ [][NextImg]_vars

\* The grammars, stated on the positions of a string -----------------------
Sub(s, i, j) == SubSeq(s, i, j)
IsAlnum(c) == c \in LowerChars \cup DigitChars
IsSepChar(c) == c \in {".", "_", "-"}

\* a separator: one dot, one or two underscores, or a run of dashes
IsSeparator(run) ==
    \/ run = <<".">>
    \/ run = <<"_">>
    \/ run = <<"_", "_">>
    \/ run # <<>> /\ \A k \in 1..Len(run) : run[k] = "-"

\* component(sep component)*: lowercase alphanumerics at both ends, and every
\* maximal run of other characters between them a separator
IsComponents(s) ==
    /\ s # <<>>
    /\ \A k \in 1..Len(s) : IsAlnum(s[k]) \/ IsSepChar(s[k])
    /\ IsAlnum(s[1]) /\ IsAlnum(s[Len(s)])
    /\ \A i \in 1..Len(s), j \in 1..Len(s) :
          (/\ i <= j
           /\ \A k \in i..j : IsSepChar(s[k])
           /\ IsAlnum(s[i - 1]) /\ IsAlnum(s[j + 1]))
          => IsSeparator(Sub(s, i, j))

IsHost(s) == s # <<>> /\ \A k \in 1..Len(s) : s[k] \in LowerChars \cup DigitChars \cup {".", "-"}
IsPort(s) == s # <<>> /\ \A k \in 1..Len(s) : s[k] \in DigitChars
IsTag(s)  ==
    s # <<>> /\ \A k \in 1..Len(s) :
                   s[k] \in LowerChars \cup UpperChars \cup DigitChars \cup {"_", ".", "-"}

\* [host[:port]/]
IsRegistryPrefix(p) ==
    \/ p = <<>>
    \/ /\ p[Len(p)] = "/"
       /\ LET h == Sub(p, 1, Len(p) - 1) IN
          \/ IsHost(h)
          \/ \E k \in 1..Len(h) :
                h[k] = ":" /\ IsHost(Sub(h, 1, k - 1)) /\ IsPort(Sub(h, k + 1, Len(h)))

\* [:tag]
IsTagSuffix(t) == t = <<>> \/ (t[1] = ":" /\ IsTag(Tail(t)))

\* components separated by single slashes
IsPath(s) ==
    /\ s # <<>>
    /\ s[1] # "/" /\ s[Len(s)] # "/"
    /\ \A k \in 1..(Len(s) - 1) : ~(s[k] = "/" /\ s[k + 1] = "/")
    /\ \A i \in 1..Len(s), j \in 1..Len(s) :
          (/\ i <= j
           /\ \A k \in i..j : s[k] # "/"
           /\ (i = 1 \/ s[i - 1] = "/")
           /\ (j = Len(s) \/ s[j + 1] = "/"))
          => IsComponents(Sub(s, i, j))

\* [host[:port]/]component(sep component)*[:tag]
InStatedGrammar(s) ==
    \E i \in 0..Len(s), j \in 0..Len(s) :
        /\ i <= j
        /\ IsRegistryPrefix(Sub(s, 1, i))
        /\ IsComponents(Sub(s, i + 1, j))
        /\ IsTagSuffix(Sub(s, j + 1, Len(s)))

\* [host[:port]/]path[:tag], path = component(sep component)*(/component(sep component)*)*
InPathGrammar(s) ==
    \E i \in 0..Len(s), j \in 0..Len(s) :
        /\ i <= j
        /\ IsRegistryPrefix(Sub(s, 1, i))
        /\ IsPath(Sub(s, i + 1, j))
        /\ IsTagSuffix(Sub(s, j + 1, Len(s)))

\* C7 as stated: the validation accepts exactly the strings of the grammar
\* [host[:port]/]component(sep component)*[:tag]
C7_AcceptsStatedGrammar ==
    img_out # "unset" => (img_out = "valid" <=> InStatedGrammar(img_in))

\* C7, amended: the validation accepts exactly the strings of the grammar
\* [host[:port]/]path[:tag] in which path is one or more components separated by
\* single slashes, each component made of lowercase alphanumeric runs joined by
\* one dot, one or two underscores or a run of dashes; every other string fails
C7_AcceptsPathGrammar ==
    img_out # "unset" => (img_out = "valid" <=> InPathGrammar(img_in))

\* a name of three path components has been accepted
C7_Witness ==
    /\ img_in = <<"a", "/", "a", "/", "a">>
    /\ img_out = "valid"
    /\ ~InStatedGrammar(img_in)
---------------------------------------------------------------------------
(* Two runs of the project creator at once: two processes, each building a *)
(* RosProjectCreator for the same project directory and calling create(),  *)
(* their steps interleaved by the scheduler of the operating system        *)

InitConc ==
    /\ \E u \in {Umask022, Umask077}, h1 \in BOOLEAN, h2 \in BOOLEAN :
          /\ env = [EnvBase EXCEPT !.umask = u]
          /\ inp = [r \in Runs |->
                      [InpBase EXCEPT !.entry = "ros_api",
                                      !.use_pre_commit = IF r = 1 THEN h1 ELSE h2]]
    /\ pc = [r \in Runs |-> "validate"]
    /\ InitCommon

NextConc ==
    \E r \in Runs :
        \/ RosProjectCreator_init(r)
        \/ RosProjectCreator_check(r)
        \/ RosProjectCreator_create(r)
        \/ RosProjectCreator_create_step(r)
        \/ RosProjectCreator_initializate_git_repo(r)
        \/ RosProjectCreator_install_pre_commit_config(r)

SpecConc == InitConc /\ [][NextConc]_vars

\* run r has created, changed or removed something in or under the directory
WritesUnder(r, dir) ==
    \E p \in hist[r].writes \cup hist[r].removed : IsUnder(p, dir)

\* C8: of two runs started against the same output directory, which does not exist
\* when they start, at most one ever writes into that directory
C8_AtMostOneRunWrites ==
    \A r1 \in Runs, r2 \in Runs :
        (/\ r1 # r2
         /\ OutputDir(r1) = OutputDir(r2)
         /\ ~Exists(Fs0, OutputDir(r1)))
        => ~(WritesUnder(r1, OutputDir(r1)) /\ WritesUnder(r2, OutputDir(r2)))
---------------------------------------------------------------------------
(* Verification of the sources against the first write                     *)

\* C9: every source of the manifest is verified before anything is written: a run
\* that fails on a missing resource has written nothing under its output directory
C9_SourcesVerifiedBeforeWrites ==
    \A r \in Runs :
        (pc[r] = "failed" /\ res[r].kind = "MissingResource")
        => ~WritesUnder(r, OutputDir(r))
---------------------------------------------------------------------------
(* The installer on its own: _install_items run on manifests made of the   *)
(* five kinds of entry its loop distinguishes, at the keys InstallerKeys   *)

InstallerKeys == {<<"a">>, <<"a", "/", "b">>, <<"c", "/", "d">>}

InstallerItems ==
    {DirItem(NoSrc), DirItem(<<"git", "gitlab">>),
     FileItem(NoSrc, FALSE), FileItem(<<"vscode", "settings.json">>, TRUE),
     RenderItem(<<"vscode", "ws.j2">>, [ros_distro |-> Str_humble], FALSE)}

Manifests == UNION {[ks -> InstallerItems] : ks \in (SUBSET InstallerKeys) \ {{}}}

InitInstaller ==
    /\ \E m \in Manifests, f0 \in {"absent", "empty"} :
          /\ env = [EnvBase EXCEPT !.fs0 = f0]
          /\ inp = [r \in Runs |->
                      IF r = 1 THEN [entry |-> "installer", items |-> m,
                                     use_console_log |-> TRUE, log_file |-> ""]
                      ELSE Off]
    /\ pc = [r \in Runs |-> IF r = 1 THEN "manifest" ELSE "off"]
    /\ fs = InitialFs(env.fs0)
    /\ self = [r \in Runs |-> IF r = 1 THEN [workspace_dir |-> ProjDir] ELSE <<>>]
    /\ idx = [r \in Runs |-> 0]
    /\ res = [r \in Runs |-> NoRes]
    /\ hist = [r \in Runs |-> NoHist]
    /\ img_in = <<>>
    /\ img_out = "unset"

NextInstaller ==
    \E r \in Runs :
        \/ VscodeProjectCreator_create_items(r)
        \/ VscodeProjectCreator_install_item(r)

SpecInstaller == InitInstaller /\ [][NextInstaller]_vars

\* the keys processed so far are in ascending order
Ascending(order) == \A i \in 1..(Len(order) - 1) : StrLess(order[i], order[i + 1])

---------------------------------------------------------------------------
(* Failures during the installation                                        *)

\* the step of run r raises an error while an entry is being installed
FailsInstalling(r) == pc[r] = "install" /\ res[r].kind = "none" /\ res'[r].kind # "none"

\* what run r has written so far is still there, as it was
KeepsApplied(r) ==
    \A p \in hist[r].writes : p \in DOMAIN fs => (p \in DOMAIN fs' /\ fs'[p] = fs[p])

\* C11: a failure on an entry of the manifest ends the run in Failed at once: what
\* the earlier entries have written stays as it is (no rollback), and a failed run
\* applies no further entry
C11_FailureAbortsWithoutRollback ==
    [][\A r \in Runs :
          /\ FailsInstalling(r) => (pc'[r] = "failed" /\ KeepsApplied(r))
          /\ pc[r] = "failed" =>
                (pc'[r] = "failed" /\ hist'[r] = hist[r] /\ idx'[r] = idx[r] /\ fs' = fs)]_vars

\* the editor files sorted before the faulty entry are in place after the failure
C11_Witness ==
    /\ pc[1] = "failed"
    /\ inp[1].entry = "vs_api"
    /\ res[1].kind = "MissingResource"
    /\ Len(hist[1].order) >= 3
    /\ IsFile(fs, ProjDir \o <<".devcontainer", "devcontainer.json">>)
    /\ ProjDir \o <<".devcontainer", "devcontainer.json">> \in hist[1].writes
---------------------------------------------------------------------------
(* The commands run after the installation                                 *)

PreCommitConfig(r) == Append(OutputDir(r), ".pre-commit-config.yaml")

\* every operation of _create has been applied in the project directory of run r
AllInstalled(r) ==
    LET ops == CreateOps(self[r], self[r].args) IN
    \A i \in 1..Len(ops) : OpInstalled(fs, self[r].project_dir, ops[i])

\* C12: the commands run only after every entry has been installed; "git init" is
\* the first; the hook configuration is copied and "pre-commit install" is run if
\* and only if pre-commit was requested, and only after a successful "git init"; a
\* non-zero exit status of either command makes the run fail
C12_HooksAfterInstall ==
    \A r \in Runs :
        LET c == hist[r].cmds IN
        /\ c # <<>> =>
              /\ c[1] = GitInit
              /\ Len(c) <= 2
              /\ AllInstalled(r)
              /\ env.git_exit # 0 => (pc[r] = "failed" /\ Len(c) = 1)
        /\ Len(c) = 2 =>
              /\ c[2] = PreCommitInstall
              /\ inp[r].use_pre_commit
              /\ IsFile(fs, PreCommitConfig(r))
              /\ env.pre_commit_exit # 0 => pc[r] = "failed"
        /\ (pc[r] = "done" /\ inp[r].entry = "ros_api") =>
              /\ Len(c) = IF inp[r].use_pre_commit THEN 2 ELSE 1
              /\ inp[r].use_pre_commit <=> Exists(fs, PreCommitConfig(r))

\* a run with pre-commit requested whose "git init" failed
C12_Witness ==
    /\ inp[1].entry = "ros_api"
    /\ inp[1].use_pre_commit
    /\ env.git_exit # 0
    /\ pc[1] = "failed"
    /\ hist[1].cmds = <<GitInit>>
---------------------------------------------------------------------------
(* The options of the command that exclude each other                      *)

\* both options of a group are given on the command line of run r
BothEntrypointOptions(r)  == inp[r].use_base_img_entrypoint /\ inp[r].entrypoint # "unset"
BothEnvironmentOptions(r) == inp[r].no_environment /\ inp[r].environment # "unset"

\* the command of run r gets as far as parsing its options
ParsesOptions(r) ==
    /\ inp[r].entry = "ros_cmd"
    /\ env.euid # 0
    /\ DOMAIN load_yaml(CatalogOf(env)) # {}

\* C13: a command line (of a run that gets to parse its options) with both options
\* of an exclusive pair, whatever the value given, is refused before the creator is
\* built and before anything is written, and the error names both options
C13_ExclusiveOptionsRefused ==
    \A r \in Runs :
        (/\ ParsesOptions(r)
         /\ pc[r] # "main"
         /\ BothEntrypointOptions(r) \/ BothEnvironmentOptions(r))
        => /\ pc[r] = "failed"
           /\ res[r].kind = "InvalidArgument"
           /\ res[r].exit # 0
           /\ self[r] = <<>>
           /\ hist[r].writes = {}
           /\ fs = Fs0
           /\ \/ /\ BothEntrypointOptions(r)
                 /\ res[r].text =
                       "argument --entrypoint: not allowed with argument --use-base-img-entrypoint"
              \/ /\ BothEnvironmentOptions(r)
                 /\ res[r].text =
                       "argument --environment: not allowed with argument --no-environment"

\* the flag together with an empty value of the other option has been refused
C13_Witness ==
    /\ ParsesOptions(1)
    /\ inp[1].use_base_img_entrypoint /\ inp[1].entrypoint = "empty"
    /\ pc[1] = "failed"
    /\ res[1].exc = "SystemExit"
---------------------------------------------------------------------------
(* Exit codes and the standard error stream                                *)

---------------------------------------------------------------------------
(* What the logger of a creator records                                    *)

Taxonomy ==
    {"InvalidArgument", "UnsupportedVariant", "PathConflict", "MissingResource",
     "MissingContext", "InvalidContext", "ExternalToolMissing", "ExternalToolFailed"}

\* C15: every error of the taxonomy raised by the constructor or by create() of the
\* project creator is logged through the logger of the creator before it leaves the
\* creator, and the run is not taken up again
C15_TaxonomyErrorsLogged ==
    \A r \in Runs :
        (/\ inp[r].entry = "ros_api"
         /\ res[r].kind \in Taxonomy)
        => (pc[r] = "failed" /\ res[r].logged)
---------------------------------------------------------------------------
(* The required string fields of an accepted configuration                 *)

\* the constructor of run r has accepted its arguments
Accepted(r) == pc[r] \notin {"main", "validate", "failed", "off", "lookup"}

\* C16: in a configuration a creator has accepted, every required string field
\* (project id, distribution, base image and image user of the project creator;
\* image id and image user of the editor creator) is the trimmed argument and is
\* not empty: an empty or blank argument is rejected
C16_RequiredFieldsNonEmpty ==
    \A r \in Runs :
        /\ (inp[r].entry = "ros_api" /\ Accepted(r)) =>
              /\ self[r].project_id = clean_str(inp[r].project_id)
              /\ self[r].ros_variant.ros_distro = clean_str(inp[r].ros_distro)
              /\ self[r].base_img = clean_str(inp[r].base_img)
              /\ self[r].img_user = clean_str(inp[r].img_user)
              /\ Truthy(self[r].project_id) /\ Truthy(self[r].ros_variant.ros_distro)
              /\ Truthy(self[r].base_img) /\ Truthy(self[r].img_user)
        /\ (inp[r].entry = "vs_api" /\ Accepted(r)) =>
              /\ self[r].img_id = clean_str(inp[r].img_id)
              /\ self[r].img_user = clean_str(inp[r].img_user)
              /\ Truthy(self[r].img_id) /\ Truthy(self[r].img_user)
---------------------------------------------------------------------------
(* The output directory and the home of the invoking user                  *)

\* the user of SUDO_USER, else of USER, when the account table knows that user
InvokingUser == IF env.sudo_user # "" THEN env.sudo_user ELSE env.user
UserKnown == InvokingUser \in DOMAIN Passwd

\* the arguments checked before the output directory are in order
DirIsChecked(r) ==
    /\ inp[r].entry = "ros_api"
    /\ pc[r] # "validate"
    /\ Truthy(clean_str(inp[r].project_id))
    /\ inp[r].project_dir # PyNone
    /\ Strip(inp[r].project_dir) # <<>>

WithinHome(r) == UserKnown /\ IsUnder(OutputDir(r), Passwd[InvokingUser])

\* C17: the project creator accepts an output directory only if, trimmed, expanded
\* and resolved, it lies within the home of the invoking user (SUDO_USER, else USER);
\* a directory elsewhere is rejected with PathConflict, an undeterminable user is
\* rejected too, and in both cases nothing has been written
C17_OutputDirWithinHome ==
    \A r \in Runs :
        DirIsChecked(r) =>
            /\ Accepted(r) => WithinHome(r)
            /\ ~UserKnown => (pc[r] = "failed" /\ res[r].kind = "NoUser" /\ fs = Fs0)
            /\ (UserKnown /\ ~WithinHome(r)) =>
                  (pc[r] = "failed" /\ res[r].kind = "PathConflict"
                   /\ hist[r].writes = {} /\ fs = Fs0)

\* under sudo, a directory in the home of the process but not of the invoking user
C17_Witness ==
    /\ DirIsChecked(1)
    /\ env.sudo_user = "admin"
    /\ OutputDir(1) = ProjDir
    /\ pc[1] = "failed"
    /\ res[1].kind = "PathConflict"

\* a padded path inside the home has been accepted
C17_WitnessAccepted ==
    /\ DirIsChecked(1) /\ Accepted(1)
    /\ inp[1].project_dir = <<" ", "~", "/", "proj", " ">>
---------------------------------------------------------------------------
(* The creators on a resource library with one source missing or of the    *)
(* wrong kind: a file of the library, or the directory git/gitlab          *)

EntrySources == ResourceFiles \cup {<<"git", "gitlab">>}
OtherKinds(n) == {"absent", IF ResourcesAll[n] = "file" THEN "dir" ELSE "file"}

InitRes ==
    /\ \E n \in EntrySources, k \in {"absent", "wrong"}, en \in {"ros_api", "vs_api"},
          d \in {Str_humble, Str_noetic}, u \in {Str_robo, Str_root}, h \in BOOLEAN,
          f0 \in {"absent", "edited"} :
          /\ env = [EnvBase EXCEPT
                      !.resources = ResourcesWith(n, IF k = "absent" THEN "absent"
                                                     ELSE IF ResourcesAll[n] = "file" THEN "dir"
                                                     ELSE "file"),
                      !.fs0 = IF en = "vs_api" THEN f0 ELSE "absent"]
          /\ inp = [r \in Runs |->
                      IF r = 1 THEN [InpBase EXCEPT !.entry = en, !.ros_distro = d,
                                                    !.img_user = u, !.use_pre_commit = h]
                      ELSE Off]
    /\ pc = [r \in Runs |-> IF r = 1 THEN "validate" ELSE "off"]
    /\ InitCommon

NextRes ==
    \E r \in Runs :
        \/ RosProjectCreator_init(r)
        \/ RosProjectCreator_check(r)
        \/ RosProjectCreator_create(r)
        \/ RosProjectCreator_create_step(r)
        \/ RosProjectCreator_initializate_git_repo(r)
        \/ RosProjectCreator_install_pre_commit_config(r)
        \/ VscodeProjectCreator_init(r)
        \/ VscodeProjectCreator_create_items(r)
        \/ VscodeProjectCreator_install_item(r)

SpecRes == InitRes /\ [][NextRes]_vars

\* the kind of source an operation of _create or an entry of the manifest declares
RequiredKind(dir) == IF dir THEN "dir" ELSE "file"

\* the operations of _create of run r whose source is absent or of the wrong kind,
\* for the arguments the run was given
BadOps(r) ==
    LET x   == RosCheckArguments(inp[r], env, Fs0)
        ops == IF ~x.ok THEN <<>>
               ELSE CreateOps(x.val, inp[r]) \o
                    (IF inp[r].use_pre_commit
                     THEN << CopyFileOp(<<"git", "dot_pre-commit-config.yaml">>,
                                        <<".pre-commit-config.yaml">>, Mode644) >>
                     ELSE <<>>)
    IN  {ops[i] : i \in {j \in DOMAIN ops :
                           /\ ops[j].op \in {"copy_file", "copy_dir", "install_template"}
                           /\ ResKind(env, ops[j].src) # RequiredKind(ops[j].op = "copy_dir")}}

\* the keys of the manifest of run r whose source is absent or of the wrong kind
BadKeys(r) ==
    {k \in DOMAIN self[r].items :
        /\ self[r].items[k].src # NoSrc
        /\ ResKind(env, self[r].items[k].src) # RequiredKind(self[r].items[k].n = 1)}

\* the destination is as it was before the run, or is not there
NotCreated(dst) == ~Exists(fs, dst) \/ (Exists(Fs0, dst) /\ fs[dst] = Fs0[dst])

MissingResourceNaming(r, srcs) ==
    /\ pc[r] = "failed"
    /\ res[r].kind = "MissingResource"
    /\ res[r].msg.path \in srcs

\* C18: an entry whose declared source is absent from the resource library, or is of
\* the wrong kind, ends the run with a MissingResource error whose message names the
\* path of such a source, and the destination of the entry is not created
C18_MissingSourceIsHardError ==
    \A r \in Runs :
        /\ (inp[r].entry = "ros_api" /\ pc[r] \in Terminal /\ BadOps(r) # {})
           => /\ MissingResourceNaming(r, {o.src : o \in BadOps(r)})
              /\ \A o \in BadOps(r) : NotCreated(OutputDir(r) \o o.dst)
        /\ (inp[r].entry = "vs_api" /\ pc[r] \in Terminal /\ self[r] # <<>>
            /\ BadKeys(r) # {})
           => /\ MissingResourceNaming(r, {self[r].items[k].src : k \in BadKeys(r)})
              /\ \A k \in BadKeys(r) : NotCreated(joinpath(self[r].workspace_dir, k))

C18_Witness ==
    \E r \in Runs :
        /\ inp[r].entry = "vs_api"
        /\ pc[r] = "failed"
        /\ self[r] # <<>>
        /\ Key_tasks \in BadKeys(r)
        /\ ResKind(env, <<"vscode", "tasks.j2">>) = "dir"
        /\ res[r].kind = "MissingResource"
        /\ Exists(fs, joinpath(self[r].workspace_dir, Key_settings))
---------------------------------------------------------------------------
(* The context of rendered entries: the manifest VscodeProjectCreator      *)
(* builds, and _install_items on manifests whose rendered entries have no  *)
(* context, a context that is not a dict, or an empty dict                 *)

Key_keep == <<"k", "e", "e", "p", ".", "t", "x", "t">>
ContextKeys == {<<"a">>, <<"a", "/", "b">>, Key_keep}

\* [source, context, executable] with a context that is None ("none"), a str ("str")
\* or a dict
RenderItemWith(src, ctx, ctxkind, exec) ==
    [n |-> 3, src |-> src, ctx |-> ctx, ctxkind |-> ctxkind, exec |-> exec]

ContextItems ==
    {FileItem(<<"vscode", "settings.json">>, TRUE),
     RenderItem(<<"vscode", "ws.j2">>, [ros_distro |-> Str_humble], FALSE),
     RenderItemWith(<<"vscode", "ws.j2">>, <<>>, "none", FALSE),
     RenderItemWith(<<"vscode", "tasks.j2">>, <<>>, "str", TRUE),
     RenderItemWith(<<"vscode", "ws.j2">>, <<>>, "dict", FALSE)}

ContextManifests == UNION {[ks -> ContextItems] : ks \in (SUBSET ContextKeys) \ {{}}}

InitContext ==
    /\ \/ \E m \in ContextManifests, f0 \in {"absent", "used"} :
             /\ env = [EnvBase EXCEPT !.fs0 = f0]
             /\ inp = [r \in Runs |->
                         IF r = 1 THEN [entry |-> "installer", items |-> m,
                                        use_console_log |-> TRUE, log_file |-> ""]
                         ELSE Off]
             /\ pc = [r \in Runs |-> IF r = 1 THEN "manifest" ELSE "off"]
             /\ self = [r \in Runs |-> IF r = 1 THEN [workspace_dir |-> ProjDir] ELSE <<>>]
       \/ \E d \in {Str_humble, Str_noetic}, u \in {Str_robo, Str_root},
             f0 \in {"absent", "edited"} :
             /\ env = [EnvBase EXCEPT !.fs0 = f0]
             /\ inp = [r \in Runs |->
                         IF r = 1 THEN [InpBase EXCEPT !.entry = "vs_api", !.ros_distro = d,
                                                       !.img_user = u]
                         ELSE Off]
             /\ pc = [r \in Runs |-> IF r = 1 THEN "validate" ELSE "off"]
             /\ self = [r \in Runs |-> <<>>]
    /\ fs = InitialFs(env.fs0)
    /\ idx = [r \in Runs |-> 0]
    /\ res = [r \in Runs |-> NoRes]
    /\ hist = [r \in Runs |-> NoHist]
    /\ img_in = <<>>
    /\ img_out = "unset"

NextContext ==
    \E r \in Runs :
        \/ VscodeProjectCreator_init(r)
        \/ VscodeProjectCreator_create_items(r)
        \/ VscodeProjectCreator_install_item(r)

SpecContext == InitContext /\ [][NextContext]_vars

HasManifest(r) == self[r] # <<>> /\ "items" \in DOMAIN self[r]

\* the rendered entries of the manifest of run r whose context is None or not a dict
WithoutContext(r) ==
    {k \in DOMAIN self[r].items :
        self[r].items[k].n = 3 /\ self[r].items[k].ctxkind # "dict"}

\* the key the loop of _install_items was at when the run ended
LastKey(r) == hist[r].order[Len(hist[r].order)]

\* C19: every rendered entry of the manifest the creator builds has a dict with at
\* least one name as its context; and a rendered entry that has no context (None, or
\* a value that is not a dict) is never installed: when the loop comes to it the run
\* fails with MissingContext (None) or InvalidContext (not a dict), and its
\* destination is not written
C19_RenderNeedsContext ==
    \A r \in Runs :
        /\ (inp[r].entry = "vs_api" /\ HasManifest(r))
           => \A k \in DOMAIN self[r].items :
                 self[r].items[k].n = 3
                 => self[r].items[k].ctxkind = "dict" /\ DOMAIN self[r].items[k].ctx # {}
        /\ (inp[r].entry = "installer" /\ HasManifest(r))
           => /\ \A k \in WithoutContext(r) : NotCreated(joinpath(self[r].workspace_dir, k))
              /\ (pc[r] = "done") => WithoutContext(r) = {}
              /\ (pc[r] = "failed" /\ LastKey(r) \in WithoutContext(r))
                 => res[r].kind = IF self[r].items[LastKey(r)].ctxkind = "none"
                                  THEN "MissingContext" ELSE "InvalidContext"

\* a manifest whose rendered entry for keep.txt has no context reached that entry
C19_Witness ==
    \E r \in Runs :
        /\ inp[r].entry = "installer"
        /\ HasManifest(r)
        /\ pc[r] = "failed"
        /\ Len(hist[r].order) = 2
        /\ LastKey(r) = Key_keep
        /\ self[r].items[Key_keep].ctxkind = "none"
        /\ res[r].kind = "MissingContext"
        /\ Exists(Fs0, joinpath(ProjDir, Key_keep))

\* the manifest the creator builds was installed whole
C19_WitnessBuilt ==
    \E r \in Runs : inp[r].entry = "vs_api" /\ pc[r] = "done" /\ HasManifest(r)
---------------------------------------------------------------------------
(* The external binaries                                                   *)

\* a run of the project creator whose arguments and environment are in order, the
\* two binaries aside
InOrderButBinaries(r) ==
    /\ inp[r].entry \in {"ros_cmd", "ros_api"}
    /\ [inp[r] EXCEPT !.entry = "ros_api", !.use_vscode_project = FALSE,
                      !.use_pre_commit = TRUE] = InpBase
    /\ [env EXCEPT !.git_bin = TRUE, !.pre_commit_bin = TRUE] = EnvBase

\* git is required by every run, pre-commit by the runs that ask for the hooks
BinaryMissing(r) == ~env.git_bin \/ (inp[r].use_pre_commit /\ ~env.pre_commit_bin)

DetectedBeforeWrites(r) ==
    /\ pc[r] = "failed"
    /\ res[r].kind = "ExternalToolMissing"
    /\ hist[r].writes = {}
    /\ fs = Fs0

\* C20: a run that lacks a binary it requires (git in every run, pre-commit when the
\* hooks are requested) and is otherwise in order fails with ExternalToolMissing, and
\* nothing has been written when it does
C20_MissingBinaryDetected ==
    \A r \in Runs :
        (InOrderButBinaries(r) /\ BinaryMissing(r) /\ pc[r] \in Terminal)
        => DetectedBeforeWrites(r)

\* what holds of the constructor called without a VSCode project: the missing binary
\* is detected by lines 216-219, before create() is ever called
MissingBinaryDetectedWithoutVscode ==
    \A r \in Runs :
        (InOrderButBinaries(r) /\ BinaryMissing(r) /\ pc[r] \in Terminal
         /\ inp[r].entry = "ros_api" /\ ~inp[r].use_vscode_project)
        => DetectedBeforeWrites(r)

\* a pre-commit binary that is missing and not required does not stop the run
BinaryNotRequiredIsNotLookedFor ==
    \A r \in Runs :
        (InOrderButBinaries(r) /\ ~BinaryMissing(r) /\ pc[r] \in Terminal
         /\ inp[r].entry = "ros_api" /\ ~inp[r].use_vscode_project)
        => pc[r] = "done"
---------------------------------------------------------------------------
(* The paths inside the image                                              *)

HomeInImage(img_user) ==
    IF Text(img_user) = "root" THEN <<"/", "root">> ELSE <<"/", "home", "/", Text(img_user)>>

\* the run holds the attributes of a validated project creator
RosValidated(r) ==
    /\ inp[r].entry \in {"ros_cmd", "ros_api"}
    /\ self[r] # <<>>
    /\ "img_user_home" \in DOMAIN self[r]

\* C21: the home inside the image is /root for the image user root and /home/<user>
\* for every other user, in the project creator and in the default of the editor
\* command; the workspace, datasets, .ssh, .gitconfig and entrypoint paths of the
\* project creator are names directly under that home
C21_ImagePathsUnderHome ==
    \A r \in Runs :
        /\ RosValidated(r) =>
              LET h == self[r].img_user_home IN
              /\ h = HomeInImage(self[r].img_user)
              /\ self[r].img_workspace_dir = h \o <<"/", "workspace">>
              /\ self[r].img_datasets_dir = h \o <<"/", "datasets">>
              /\ self[r].img_ssh_dir = h \o <<"/", ".ssh">>
              /\ self[r].img_gitconfig_dir = h \o <<"/", ".gitconfig">>
              /\ self[r].img_entrypoint = h \o <<"/", "entrypoint.sh">>
        /\ (inp[r].entry = "vs_cmd" /\ Strip(inp[r].img_user_home.v) = <<>>)
           => img_user_home_str(inp[r]) = HomeInImage(clean_str(inp[r].img_user))

\* a project created for the image user root
C21_Witness ==
    /\ RosValidated(1)
    /\ pc[1] = "done"
    /\ inp[1].img_user = Str_root
    /\ self[1].img_user_home = <<"/", "root">>
    /\ self[1].img_ssh_dir = <<"/", "root", "/", ".ssh">>
---------------------------------------------------------------------------
(* The messages of the installation steps                                  *)

\* C22: every installation step announces its destination before it acts on it: no
\* destination of a step of the project installer or of the editor installer has
\* been written without a "Creating ... '<path>'" message of that step before the
\* write
C22_LoggedBeforeWritten ==
    \A r \in Runs : hist[r].unlogged = {}

\* what holds of the editor installer alone: each of its destinations is announced
\* (line 240, 258 or 276) before it is created
EditorStepsAnnounced ==
    \A r \in Runs : inp[r].entry \in {"vs_cmd", "vs_api", "installer"} => hist[r].unlogged = {}
---------------------------------------------------------------------------
(* The catalog document                                                    *)

\* the catalog file is missing, or its document is unparsable ("invalid"), is not a
\* mapping ("list", "null"), or is a mapping without keys
CatalogUnusable ==
    \/ ~env.catalog.file
    \/ env.catalog.doc # "dict"
    \/ DOMAIN env.catalog.variants = {}

\* C23: with a catalog document that is missing, unparsable, not a mapping or empty,
\* every lookup fails, whatever the identifier, and no variant record is returned
C23_UnusableCatalogFailsLookup ==
    \A r \in Runs :
        (inp[r].entry = "lookup" /\ CatalogUnusable)
        => /\ pc[r] # "done"
           /\ self[r] = <<>>
           /\ pc[r] \in Terminal => (pc[r] = "failed" /\ res[r].kind \in {"MissingResource", "InvalidArgument"})

\* the lookup of an identifier the document lists, when the document is a list
C23_Witness ==
    /\ inp[1].entry = "lookup"
    /\ inp[1].ros_distro = Str_humble
    /\ env.catalog = [file |-> TRUE, doc |-> "list", variants |-> CatalogStd]
    /\ pc[1] = "failed"
    /\ res[1].kind = "MissingResource"
---------------------------------------------------------------------------
(* The editor integration of the project creator                           *)

EditorKeys ==
    {Key_devcontainer, Key_docker_compose, Key_c_cpp, Key_settings, Key_tasks, Key_workspace}
EditorPaths(r) == {joinpath(OutputDir(r), k) : k \in EditorKeys}

\* a run of the project creator on the valid environment and arguments, with or
\* without the VSCode project
InOrderButEditor(r) ==
    /\ inp[r].entry \in {"ros_cmd", "ros_api"}
    /\ [inp[r] EXCEPT !.entry = "ros_api", !.use_vscode_project = FALSE] = InpBase
    /\ env = EnvBase

\* C24: a run of the project creator with the editor integration enabled succeeds
\* and leaves the six files of the editor manifest under the output directory; a
\* run with it disabled creates none of them
C24_EditorManifestInstalled ==
    \A r \in Runs :
        (InOrderButEditor(r) /\ pc[r] \in Terminal)
        => IF inp[r].use_vscode_project
           THEN pc[r] = "done" /\ \A p \in EditorPaths(r) : IsFile(fs, p)
           ELSE \A p \in EditorPaths(r) : ~Exists(fs, p)

\* what holds: no run of the project creator ever creates a file of the editor
\* manifest, and no run that asks for the VSCode project succeeds
EditorManifestNeverInstalled ==
    \A r \in Runs :
        inp[r].entry \in {"ros_cmd", "ros_api"}
        => /\ \A p \in EditorPaths(r) : p \notin hist[r].writes
           /\ inp[r].use_vscode_project => pc[r] # "done"
---------------------------------------------------------------------------
(* The image id and its default                                            *)

\* no image id is supplied: None, '' or whitespace
NoImgId(r) == ~Truthy(clean_str(inp[r].img_id))

\* the image id of a validated project creator is the supplied one, trimmed, or
\* '<project-id>:latest', and it is in the grammar of is_valid_docker_image_name
ImgIdDefaultedAndChecked(r) ==
    RosValidated(r) =>
        /\ self[r].img_id = IF NoImgId(r) THEN self[r].project_id \o <<":", "l", "a", "t", "e", "s", "t">>
                            ELSE clean_str(inp[r].img_id)
        /\ is_valid_docker_image_name(self[r].img_id)

\* C25 as stated: the image id defaults to '<project-id>:latest', every accepted
\* image id is in the grammar, and with no image id a project id that is not a
\* grammatical image path (components of [a-z0-9] joined by separators, joined by
\* '/') is rejected
C25_DefaultAsStated ==
    \A r \in Runs :
        /\ ImgIdDefaultedAndChecked(r)
        /\ (inp[r].entry = "ros_api" /\ NoImgId(r) /\ pc[r] \in Terminal
            /\ ~IsPath(clean_str(inp[r].project_id)))
           => pc[r] = "failed"

\* C25 amended: the image id defaults to '<project-id>:latest', every accepted image
\* id is in the grammar, and with no image id a project id is rejected when
\* '<project-id>:latest' as a whole is outside the grammar (a project id that reads as
\* a registry prefix followed by a path, such as './x', is accepted)
C25_DefaultedIdInGrammar ==
    \A r \in Runs :
        /\ ImgIdDefaultedAndChecked(r)
        /\ (inp[r].entry = "ros_api" /\ NoImgId(r) /\ pc[r] \in Terminal
            /\ ~is_valid_docker_image_name(clean_str(inp[r].project_id)
                                           \o <<":", "l", "a", "t", "e", "s", "t">>))
           => (pc[r] = "failed" /\ hist[r].writes = {})

\* a project created with no image id for the project id './x'
C25_Witness ==
    /\ RosValidated(1)
    /\ inp[1].img_id = PyNone
    /\ inp[1].project_id = Str_dot_x
    /\ pc[1] = "done"
    /\ self[1].img_id = <<".", "/", "x", ":", "l", "a", "t", "e", "s", "t">>

\* with no image id the project id 'Rob' has been refused for its default image id
C25_WitnessRefused ==
    /\ inp[1].entry = "ros_api"
    /\ inp[1].img_id = Str_blank
    /\ inp[1].project_id = Str_Rob
    /\ pc[1] = "failed"
    /\ res[1].text = "Image ID is not a valid Docker image name"
---------------------------------------------------------------------------
(* The build and clean commands of the editor tasks                        *)

\* the run holds the attributes of a validated VscodeProjectCreator
VscodeValidated(r) ==
    /\ inp[r].entry \in {"vs_cmd", "vs_api"}
    /\ self[r] # <<>>
    /\ "clean_cmd" \in DOMAIN self[r]

CatkinCommands(s) ==
    /\ s.clean_cmd = "catkin clean --yes --verbose --force"
    /\ s.build_debug_cmd = "rosbuild.sh --cmake-args -DCMAKE_BUILD_TYPE=Debug"
    /\ s.build_relwithdebinfo_cmd = "rosbuild.sh --cmake-args -DCMAKE_BUILD_TYPE=RelWithDebInfo"

ColconCommands(s) ==
    /\ s.clean_cmd = "colcon clean workspace -y"
    /\ s.build_debug_cmd = "rosbuild.sh --mixin debug"
    /\ s.build_relwithdebinfo_cmd = "rosbuild.sh --mixin rel-with-deb-info"

\* C26: the commands of a validated editor configuration follow the numeric version
\* tag of its variant: the catkin clean and the cmake-args builds for the tag 1, the
\* colcon clean and the mixin builds for every other tag
C26_CommandsFollowVersion ==
    \A r \in Runs :
        VscodeValidated(r) =>
            IF self[r].ros_variant.ros_version = 1 THEN CatkinCommands(self[r])
            ELSE ColconCommands(self[r])

\* what holds: the commands are the colcon ones for every variant of the catalog
CommandsAlwaysColcon ==
    \A r \in Runs : VscodeValidated(r) => ColconCommands(self[r])
---------------------------------------------------------------------------
(* The files of the one ROS version                                        *)

\* the constructor of the project creator has returned: the templates are checked
RosConstructed(r) == RosValidated(r) /\ "pre_commit_template" \in DOMAIN self[r]

CatkinConfig(r) == OutputDir(r) \o <<".catkin_tools", "profiles", "default", "config.yaml">>
RosdepIgnoredKeys(r) == OutputDir(r) \o <<"docker", ".resources", "rosdep_ignored_keys.yaml">>
ColconMixin(r) == OutputDir(r) \o <<"docker", ".resources", "colcon_mixin_metadata.sh">>

\* C27: the version of a constructed project creator is 1 or 2; the catkin profile
\* config is installed only for version 1 and the rosdep-ignored-keys file and the
\* colcon mixin script only for version 2, and a finished run has installed the
\* files of its version
C27_VersionFilesExclusive ==
    \A r \in Runs :
        RosConstructed(r) =>
            LET v == self[r].ros_variant.ros_version IN
            /\ v \in {1, 2}
            /\ Exists(fs, CatkinConfig(r)) => v = 1
            /\ (Exists(fs, RosdepIgnoredKeys(r)) \/ Exists(fs, ColconMixin(r))) => v = 2
            /\ pc[r] = "done" =>
                  /\ v = 1 => IsFile(fs, CatkinConfig(r))
                  /\ v = 2 => (IsFile(fs, RosdepIgnoredKeys(r)) /\ IsFile(fs, ColconMixin(r)))

\* a project of version 1 has been created
C27_Witness ==
    /\ RosConstructed(1)
    /\ pc[1] = "done"
    /\ self[1].ros_variant.ros_version = 1
    /\ IsFile(fs, CatkinConfig(1))
    /\ ~Exists(fs, RosdepIgnoredKeys(1))

\* a variant of version 3 has been refused by the constructor
C27_WitnessRefused ==
    /\ inp[1].entry = "ros_api"
    /\ inp[1].ros_distro = Str_next
    /\ env.catalog.variants = CatalogNext
    /\ pc[1] = "failed"
    /\ fs = Fs0
---------------------------------------------------------------------------
(* The container platform                                                  *)

PlatformGiven(r) == Truthy(clean_str(inp[r].docker_platform))
Supported(r) == inp[r].supported_docker_platforms

\* the ids of the supported platforms that list the architecture of the machine
IdsForMachine(r) ==
    {Supported(r)[i].id : i \in {j \in 1..Len(Supported(r)) :
                                    env.arch \in Supported(r)[j].architectures}}

\* C28: the platform of a validated project creator is a key of the supported
\* platforms: the one supplied, trimmed, or else the id of a supported platform that
\* lists the architecture of the machine; a supplied platform that is no key is
\* rejected, and so is a machine whose architecture no supported platform lists
C28_PlatformIsSupported ==
    \A r \in Runs :
        /\ RosValidated(r) =>
              /\ self[r].docker_platform \in PlatformKeys(Supported(r))
              /\ PlatformGiven(r) => self[r].docker_platform = clean_str(inp[r].docker_platform)
              /\ ~PlatformGiven(r) => self[r].docker_platform \in IdsForMachine(r)
        /\ (inp[r].entry = "ros_api" /\ pc[r] \in Terminal) =>
              /\ (PlatformGiven(r) /\ clean_str(inp[r].docker_platform) \notin PlatformKeys(Supported(r)))
                 => pc[r] = "failed"
              /\ (~PlatformGiven(r) /\ IdsForMachine(r) = {}) => pc[r] = "failed"

\* with no platform given, on a machine no supported platform lists, the constructor
\* has refused
C28_Witness ==
    /\ inp[1].entry = "ros_api"
    /\ inp[1].docker_platform = PyNone
    /\ env.arch = "riscv64"
    /\ pc[1] = "failed"
    /\ res[1].text = "Architecture is not supported"

\* with no platform given, the platform has been taken from the machine
C28_WitnessDefault ==
    /\ RosValidated(1)
    /\ inp[1].docker_platform = PyNone
    /\ pc[1] = "done"
    /\ self[1].docker_platform = Str_amd64
---------------------------------------------------------------------------
(* The editor installer run twice: the second construction of the          *)
(* VscodeProjectCreator starts when the first has returned                  *)

InitTwice ==
    /\ \E f0 \in {"absent", "empty", "used", "edited"}, u \in {Umask022, Umask077},
          g \in {"global", "none"}, m \in {Mode644, Mode755},
          d \in {Str_humble, Str_noetic} :
          /\ env = [EnvBase EXCEPT !.fs0 = f0, !.umask = u, !.gitconfig = g, !.src_mode = m]
          /\ inp = [r \in Runs |-> [InpBase EXCEPT !.entry = "vs_api", !.ros_distro = d]]
    /\ pc = [r \in Runs |-> "validate"]
    /\ InitCommon

NextTwice ==
    \E r \in Runs :
        /\ r = 2 => pc[1] = "done"
        /\ \/ VscodeProjectCreator_init(r)
           \/ VscodeProjectCreator_create_items(r)
           \/ VscodeProjectCreator_install_item(r)

SpecTwice == InitTwice /\ [][NextTwice]_vars

\* the workspace one run of the installer leaves, started on the initial one
InstalledOnce(r) ==
    InstallAll(Fs0, env, self[r].workspace_dir, self[r].items, self[r].order).fs

ManifestPaths(r) == {joinpath(self[r].workspace_dir, k) : k \in DOMAIN self[r].items}

\* C29: each of two runs of the editor installer with the same configuration
\* succeeds; the workspace after the second is the workspace a single run leaves,
\* files, contents and permission bits; what a destination held before is replaced;
\* and the paths of the initial workspace that are no destinations are as they were
C29_InstallerIdempotent ==
    \A r \in Runs :
        /\ pc[r] \in Terminal => pc[r] = "done"
        /\ (pc[r] = "done" /\ HasManifest(r)) =>
              /\ fs = InstalledOnce(r)
              /\ \A k \in DOMAIN self[r].items :
                    LET p == joinpath(self[r].workspace_dir, k) IN
                    /\ IsFile(fs, p)
                    /\ fs[p].mode = ItemMode(self[r].items[k].exec)
                    /\ fs[p].data # UserData
        /\ HasManifest(r) =>
              \A p \in DOMAIN Fs0 \ ManifestPaths(r) : Exists(fs, p) /\ fs[p] = Fs0[p]

\* the second run has finished on a workspace that held settings of the user
C29_Witness ==
    /\ pc[1] = "done"
    /\ pc[2] = "done"
    /\ env.fs0 = "edited"
    /\ Len(hist[2].order) = 6
    /\ fs[ProjDir \o <<".vscode", "settings.json">>].mode = Mode775
    /\ fs[Append(ProjDir, "keep.txt")].data = UserData
---------------------------------------------------------------------------
(* The commands run by root                                                *)

\* a command started with effective user id 0, as root or through sudo
RunAsRoot(r) == IsCommand(inp[r].entry) /\ env.euid = 0

\* the run left main() on its first statement: nothing parsed, nothing validated
RefusedAtOnce(r) ==
    /\ pc[r] = "failed"
    /\ res[r].kind = "RootRefused"
    /\ res[r].exc = "RuntimeError"
    /\ res[r].exit = 1
    /\ self[r] = <<>>
    /\ hist[r].writes = {} /\ hist[r].cmds = <<>>

\* C30: both commands refuse to run with effective user id 0: the run ends with a
\* non-zero exit code on the first statement of main(), before the arguments are
\* parsed or validated and with nothing written; and no run of a command, under
\* sudo or not, gets as far as the constructor that resolves the home of SUDO_USER
C30_RootRefused ==
    \A r \in Runs :
        /\ RunAsRoot(r) => /\ pc[r] \in {"main", "failed"}
                           /\ pc[r] = "failed" => RefusedAtOnce(r)
                           /\ hist[r].writes = {}
        /\ IsCommand(inp[r].entry) => pc[r] \in {"main", "failed", "off"}

\* under sudo (SUDO_USER set, effective user id 0) a command has been refused
C30_Witness ==
    /\ RunAsRoot(1)
    /\ env.sudo_user = "admin"
    /\ RefusedAtOnce(1)

\* the ROS command has been refused as root
C30_WitnessRos ==
    /\ inp[1].entry = "ros_cmd"
    /\ RunAsRoot(1)
    /\ RefusedAtOnce(1)

=============================================================================
